---- MODULE Spec2Model ----
(***************************************************************************)
(* State-machine model of the cFS MCP interface application: the request   *)
(* pipeline of mcp_interface_app.c (validate, safety gate, dispatch,       *)
(* count, encode, send), the safety utilities of mcp_safety_utils.c and    *)
(* the handlers of mcp_command_handlers.c.                                 *)
(*                                                                         *)
(* C strings that the code inspects (app_name, command, params) are        *)
(* sequences of one-character strings, so that toupper, strstr, strcmp     *)
(* and strlen are computed as the code computes them.  Texts the code only *)
(* produces (result, error_msg) are TLA+ strings; "" is the empty buffer   *)
(* left by memset.                                                         *)
(***************************************************************************)
EXTENDS Integers, Sequences, FiniteSets, TLC

(***************************************************************************)
(* Bounds of the model.                                                    *)
(***************************************************************************)
MaxTime == 5
MaxRequests == 2
\* The peers that may be connected at once in the connection specification.
MaxPeers == 5
\* The values CmdCounter and ErrCounter may reach.
MaxCommands == 1

(***************************************************************************)
(* Program constants (mcp_interface_app.h).                                *)
(***************************************************************************)
MCP_MAX_JSON_SIZE == 4096
MCP_MAX_CLIENTS == 4
MCP_MAX_APP_NAME_LEN == 20
MCP_MAX_CMD_NAME_LEN == 32

MCP_INTERFACE_COMMAND_ERR_EID == 2
MCP_INTERFACE_CLIENT_CONNECT_INF_EID == 4
MCP_INTERFACE_CLIENT_DISCONNECT_INF_EID == 5
MCP_INTERFACE_COMMAND_SUCCESS_INF_EID == 6
MCP_INTERFACE_SAFETY_ERR_EID == 8

MCP_CMD_SEND_COMMAND == 0
MCP_CMD_GET_TELEMETRY == 1
MCP_CMD_GET_SYSTEM_STATUS == 2
MCP_CMD_MANAGE_APP == 3
MCP_CMD_GET_FILE_LIST == 4
MCP_CMD_READ_FILE == 5
MCP_CMD_WRITE_FILE == 6
MCP_CMD_GET_EVENT_LOG == 7
MCP_CMD_EMERGENCY_STOP == 8
MCP_CMD_MAX == 9

\* Ground command codes.
MCP_INTERFACE_NOOP_CC == 0
MCP_INTERFACE_RESET_COUNTERS_CC == 1
MCP_INTERFACE_ENABLE_DEBUG_CC == 2
MCP_INTERFACE_DISABLE_DEBUG_CC == 3

\* The cooldown of the critical-command rate limit, in seconds.
CRITICAL_COOLDOWN == 5

\* cFE return codes: only their identity matters.
CFE_SUCCESS == "CFE_SUCCESS"
CFE_ES_ERR_APPNAME == "CFE_ES_ERR_APPNAME"

(***************************************************************************)
(* C strings.                                                              *)
(***************************************************************************)
strlen(s) == Len(s)

\* strstr(haystack, needle) != NULL
strstr(haystack, needle) ==
    \E i \in 1..(Len(haystack) - Len(needle) + 1) :
        SubSeq(haystack, i, i + Len(needle) - 1) = needle

\* strcmp(a, b) == 0
strcmp0(a, b) == a = b

LowerChars == <<"a","b","c","d","e","f","g","h","i","j","k","l","m",
                "n","o","p","q","r","s","t","u","v","w","x","y","z">>
UpperChars == <<"A","B","C","D","E","F","G","H","I","J","K","L","M",
                "N","O","P","Q","R","S","T","U","V","W","X","Y","Z">>

toupper(c) ==
    IF \E i \in 1..Len(LowerChars) : LowerChars[i] = c
    THEN UpperChars[CHOOSE i \in 1..Len(LowerChars) : LowerChars[i] = c]
    ELSE c

\* The loop  for (i = 0; i < strlen(s) && i < size - 1; i++) buf[i] = toupper(s[i]);
\* followed by buf[i] = '\0'.
UpperCopy(s, size) ==
    LET n == IF Len(s) < size - 1 THEN Len(s) ELSE size - 1
    IN  [i \in 1..n |-> toupper(s[i])]

critical_commands ==
    << <<"R","E","S","E","T">>,
       <<"R","E","S","T","A","R","T">>,
       <<"S","T","O","P">>,
       <<"S","T","A","R","T">>,
       <<"D","E","L","E","T","E">>,
       <<"F","O","R","M","A","T">>,
       <<"P","O","W","E","R","_","O","F","F">>,
       <<"R","E","B","O","O","T">> >>

critical_apps ==
    << <<"C","F","E","_","E","S">>,
       <<"C","F","E","_","E","V","S">>,
       <<"C","F","E","_","S","B">>,
       <<"C","F","E","_","T","I","M","E">>,
       <<"C","F","E","_","T","B","L">>,
       <<"S","C","H","_","L","A","B">> >>

\* The protected path fragments of the file-operation check.
protected_paths ==
    << <<"/","b","o","o","t">>,
       <<"/","e","t","c">>,
       <<"/","s","y","s">>,
       <<"/","p","r","o","c">> >>

\* String literals the code compares against.
S_EMPTY == << >>
S_CFE_ES == <<"C","F","E","_","E","S">>
S_FM == <<"F","M">>
S_NOOP == <<"N","O","O","P">>
S_RESET_COUNTERS == <<"R","E","S","E","T","_","C","O","U","N","T","E","R","S">>
S_GET_DIR_LIST == <<"G","E","T","_","D","I","R","_","L","I","S","T">>
S_MCP_INTERFACE == <<"M","C","P","_","I","N","T","E","R","F","A","C","E">>
Q_START == <<"\"","s","t","a","r","t","\"">>
Q_STOP == <<"\"","s","t","o","p","\"">>
Q_STATUS == <<"\"","s","t","a","t","u","s","\"">>
DOTDOT == <<".",".">>


(***************************************************************************)
(* Requests and responses (MCP_Request_t, MCP_Response_t).                 *)
(***************************************************************************)
\* memset(&request, 0, sizeof(request))
ZeroRequest ==
    [id |-> 0, type |-> 0, app_name |-> S_EMPTY, command |-> S_EMPTY,
     params |-> S_EMPTY, require_confirmation |-> FALSE, is_critical |-> FALSE]

\* What snprintf formats into a result text besides fields of the request:
\* the time read from the clock, the request counters of the application
\* (RequestCounter, SuccessCounter, ErrorCounter) and the rest of its state.
Args(time, counters, state) ==
    [time |-> time, counters |-> counters, state |-> state]

NoArgs == Args(0, << >>, << >>)

\* memset(&response, 0, sizeof(response)).  result is the format of the
\* result text and result_args what snprintf formats into it.
ZeroResponse ==
    [id |-> 0, status |-> 0, result |-> "", result_args |-> NoArgs,
     error_msg |-> "", timestamp |-> 0]

\* No frame has been written to the socket.  len is strlen(json_str).
NoFrame ==
    [id |-> 0, status |-> 0, timestamp |-> 0, members |-> {},
     result |-> "", error |-> "", len |-> 0]

\* One observable step of a handling, in program order: an event sent to
\* EVS, a call of a collaborator, the dispatch to a handler, the send().
Op(op, arg) == [op |-> op, arg |-> arg]
Event(eid) == Op("CFE_EVS_SendEvent", eid)

\* response->status = -1; strncpy(response->error_msg, msg, ...)
Failed(response, msg) == [response EXCEPT !.status = -1, !.error_msg = msg]

\* snprintf(result_str, ..., format, args); response->status = 0;
\* strncpy(response->result, result_str, ...)
SucceededWith(response, result_str, args) ==
    [response EXCEPT !.status = 0, !.result = result_str, !.result_args = args]

\* The same for a result that formats request fields only.
Succeeded(response, result_str) == SucceededWith(response, result_str, NoArgs)

\* MCP_INTERFACE_AppData.SafetyMode ? "true" : "false"
TrueFalse(b) == IF b THEN "true" ELSE "false"

(***************************************************************************)
(* mcp_safety_utils.c                                                      *)
(***************************************************************************)
\* The file-operation check of the safety gate.
ProtectedPath(params) ==
    \E i \in 1..Len(protected_paths) : strstr(params, protected_paths[i])

\* A uint32, and a value of the enumeration MCP_CommandType_t (which has no
\* negative enumerator, so its type is unsigned int), is held as its 32-bit
\* pattern read in two's complement: the values 2^31 .. 2^32-1 appear as
\* -2^31 .. -1, which is what the casts (uint32)valueint and
\* (MCP_CommandType_t)valueint leave of a negative number.  U32Hi and U32Lo
\* are the two halves of the unsigned value, UnsignedGE its order.
U32Hi(n) == (n \div 65536) % 65536
U32Lo(n) == n % 65536

UnsignedGE(a, b) ==
    \/ U32Hi(a) > U32Hi(b)
    \/ U32Hi(a) = U32Hi(b) /\ U32Lo(a) >= U32Lo(b)

\* Mutant: the validator without its check of the request id.
ValidateRequest_NoIdCheck(request) ==
    IF UnsignedGE(request.type, MCP_CMD_MAX) THEN CFE_ES_ERR_APPNAME
    ELSE IF /\ request.type \in {MCP_CMD_SEND_COMMAND, MCP_CMD_GET_TELEMETRY,
                                 MCP_CMD_MANAGE_APP}
            /\ \/ Len(request.app_name) = 0
               \/ Len(request.app_name) >= MCP_MAX_APP_NAME_LEN
         THEN CFE_ES_ERR_APPNAME
    ELSE IF /\ request.type = MCP_CMD_SEND_COMMAND
            /\ \/ Len(request.command) = 0
               \/ Len(request.command) >= MCP_MAX_CMD_NAME_LEN
         THEN CFE_ES_ERR_APPNAME
    ELSE IF Len(request.params) >= MCP_MAX_JSON_SIZE THEN CFE_ES_ERR_APPNAME
    ELSE CFE_SUCCESS

\* Mutant: the validator that does not ask a send command for its command.
ValidateRequest_NoCommandCheck(request) ==
    IF request.id = 0 THEN CFE_ES_ERR_APPNAME
    ELSE IF UnsignedGE(request.type, MCP_CMD_MAX) THEN CFE_ES_ERR_APPNAME
    ELSE IF /\ request.type \in {MCP_CMD_SEND_COMMAND, MCP_CMD_GET_TELEMETRY,
                                 MCP_CMD_MANAGE_APP}
            /\ \/ strlen(request.app_name) = 0
               \/ strlen(request.app_name) >= MCP_MAX_APP_NAME_LEN
         THEN CFE_ES_ERR_APPNAME
    ELSE IF strlen(request.params) >= MCP_MAX_JSON_SIZE THEN CFE_ES_ERR_APPNAME
    ELSE CFE_SUCCESS

\* Mutant: the validator that compares the type as a signed number.
ValidateRequest_SignedType(request) ==
    IF request.id = 0 THEN CFE_ES_ERR_APPNAME
    ELSE IF request.type >= MCP_CMD_MAX THEN CFE_ES_ERR_APPNAME
    ELSE IF /\ request.type \in {MCP_CMD_SEND_COMMAND, MCP_CMD_GET_TELEMETRY,
                                 MCP_CMD_MANAGE_APP}
            /\ \/ strlen(request.app_name) = 0
               \/ strlen(request.app_name) >= MCP_MAX_APP_NAME_LEN
         THEN CFE_ES_ERR_APPNAME
    ELSE IF /\ request.type = MCP_CMD_SEND_COMMAND
            /\ \/ strlen(request.command) = 0
               \/ strlen(request.command) >= MCP_MAX_CMD_NAME_LEN
         THEN CFE_ES_ERR_APPNAME
    ELSE IF strlen(request.params) >= MCP_MAX_JSON_SIZE THEN CFE_ES_ERR_APPNAME
    ELSE CFE_SUCCESS

MCP_INTERFACE_ValidateRequest(request) ==
    IF request.id = 0 THEN CFE_ES_ERR_APPNAME
    ELSE IF UnsignedGE(request.type, MCP_CMD_MAX) THEN CFE_ES_ERR_APPNAME
    ELSE IF /\ request.type \in {MCP_CMD_SEND_COMMAND, MCP_CMD_GET_TELEMETRY,
                                 MCP_CMD_MANAGE_APP}
            /\ \/ strlen(request.app_name) = 0
               \/ strlen(request.app_name) >= MCP_MAX_APP_NAME_LEN
         THEN CFE_ES_ERR_APPNAME
    ELSE IF /\ request.type = MCP_CMD_SEND_COMMAND
            /\ \/ strlen(request.command) = 0
               \/ strlen(request.command) >= MCP_MAX_CMD_NAME_LEN
         THEN CFE_ES_ERR_APPNAME
    ELSE IF strlen(request.params) >= MCP_MAX_JSON_SIZE THEN CFE_ES_ERR_APPNAME
    ELSE CFE_SUCCESS

\* Mutant: the gate with the protected-path check applied to write file only.
IsSafeCommand_WriteOnly(request, SafetyMode) ==
    LET upper_command == UpperCopy(request.command, MCP_MAX_CMD_NAME_LEN)
        upper_app == UpperCopy(request.app_name, MCP_MAX_APP_NAME_LEN)
        unconfirmed == SafetyMode /\ ~request.require_confirmation
        Blocked == [safe |-> FALSE, ops |-> <<Event(MCP_INTERFACE_SAFETY_ERR_EID)>>]
    IN  IF /\ \E i \in 1..Len(critical_commands) :
                  strstr(upper_command, critical_commands[i])
           /\ unconfirmed
        THEN Blocked
        ELSE IF /\ \E i \in 1..Len(critical_apps) :
                       strcmp0(upper_app, critical_apps[i])
                /\ unconfirmed
        THEN Blocked
        ELSE IF /\ request.type = MCP_CMD_WRITE_FILE
                /\ ProtectedPath(request.params)
        THEN Blocked
        ELSE [safe |-> TRUE, ops |-> << >>]

\* Mutant: the gate that wants a confirmation for every request in safety
\* mode.
IsSafeCommand_ConfirmAll(request, SafetyMode) ==
    IF SafetyMode /\ ~request.require_confirmation
    THEN [safe |-> FALSE, ops |-> <<Event(MCP_INTERFACE_SAFETY_ERR_EID)>>]
    ELSE IF /\ request.type \in {MCP_CMD_WRITE_FILE, MCP_CMD_READ_FILE}
            /\ ProtectedPath(request.params)
    THEN [safe |-> FALSE, ops |-> <<Event(MCP_INTERFACE_SAFETY_ERR_EID)>>]
    ELSE [safe |-> TRUE, ops |-> << >>]

\* Mutant: the gate that looks at the verb only and lets an unconfirmed
\* request to a critical application pass.
IsSafeCommand_VerbsOnly(request, SafetyMode) ==
    LET upper_command == UpperCopy(request.command, MCP_MAX_CMD_NAME_LEN)
        unconfirmed == SafetyMode /\ ~request.require_confirmation
        Blocked == [safe |-> FALSE, ops |-> <<Event(MCP_INTERFACE_SAFETY_ERR_EID)>>]
    IN  IF /\ \E i \in 1..Len(critical_commands) :
                  strstr(upper_command, critical_commands[i])
           /\ unconfirmed
        THEN Blocked
        ELSE IF /\ request.type \in {MCP_CMD_WRITE_FILE, MCP_CMD_READ_FILE}
                /\ ProtectedPath(request.params)
        THEN Blocked
        ELSE [safe |-> TRUE, ops |-> << >>]

\* Returns the gate's verdict and the events it sent.
MCP_INTERFACE_IsSafeCommand(request, SafetyMode) ==
    LET upper_command == UpperCopy(request.command, MCP_MAX_CMD_NAME_LEN)
        upper_app == UpperCopy(request.app_name, MCP_MAX_APP_NAME_LEN)
        unconfirmed == SafetyMode /\ ~request.require_confirmation
        Blocked == [safe |-> FALSE, ops |-> <<Event(MCP_INTERFACE_SAFETY_ERR_EID)>>]
    IN  IF /\ \E i \in 1..Len(critical_commands) :
                  strstr(upper_command, critical_commands[i])
           /\ unconfirmed
        THEN Blocked
        ELSE IF /\ \E i \in 1..Len(critical_apps) :
                       strcmp0(upper_app, critical_apps[i])
                /\ unconfirmed
        THEN Blocked
        ELSE IF /\ request.type \in {MCP_CMD_WRITE_FILE, MCP_CMD_READ_FILE}
                /\ ProtectedPath(request.params)
        THEN Blocked
        ELSE IF request.type = MCP_CMD_EMERGENCY_STOP
        THEN [safe |-> TRUE, ops |-> << >>]
        ELSE [safe |-> TRUE, ops |-> << >>]

\* Mutant: the audit notification that sends no event.
LogSafetyEvent_Silent(event_id) == << >>

MCP_INTERFACE_LogSafetyEvent(event_id) == <<Event(event_id)>>

(***************************************************************************)
(* The frame read from a client, as cJSON sees it: whether the text is     *)
(* well-formed JSON and, for each member the decoder looks up, its JSON    *)
(* kind and value.  Numbers are the valueint of the item, a signed int.    *)
(***************************************************************************)
JAbsent == [kind |-> "absent", num |-> 0, str |-> << >>, bool |-> FALSE]
JNumber(n) == [kind |-> "number", num |-> n, str |-> << >>, bool |-> FALSE]
JString(str) == [kind |-> "string", num |-> 0, str |-> str, bool |-> FALSE]
JBool(b) == [kind |-> "bool", num |-> 0, str |-> << >>, bool |-> b]

cJSON_IsNumber(item) == item.kind = "number"
cJSON_IsString(item) == item.kind = "string"
cJSON_IsBool(item) == item.kind = "bool"

\* strncpy(dest, src, n) into a zeroed buffer of n + 1 bytes.
strncpy(src, n) == SubSeq(src, 1, IF Len(src) < n THEN Len(src) ELSE n)

\* Mutant: the decoder that takes a missing or non-numeric type for 0.
ParseJSONRequest_TypeOptional(json) ==
    IF ~json.wellformed
    THEN [status |-> CFE_ES_ERR_APPNAME, request |-> ZeroRequest]
    ELSE IF ~cJSON_IsNumber(json.id)
    THEN [status |-> CFE_ES_ERR_APPNAME, request |-> ZeroRequest]
    ELSE [status |-> CFE_SUCCESS,
          request |->
            [id |-> json.id.num,
             type |-> IF cJSON_IsNumber(json.type) THEN json.type.num ELSE 0,
             app_name |-> IF cJSON_IsString(json.app_name)
                          THEN strncpy(json.app_name.str, MCP_MAX_APP_NAME_LEN - 1)
                          ELSE S_EMPTY,
             command |-> IF cJSON_IsString(json.command)
                         THEN strncpy(json.command.str, MCP_MAX_CMD_NAME_LEN - 1)
                         ELSE S_EMPTY,
             params |-> IF cJSON_IsString(json.params)
                        THEN strncpy(json.params.str, MCP_MAX_JSON_SIZE - 1)
                        ELSE S_EMPTY,
             require_confirmation |->
                 cJSON_IsBool(json.require_confirmation)
                     /\ json.require_confirmation.bool,
             is_critical |->
                 cJSON_IsBool(json.is_critical) /\ json.is_critical.bool]]

\* Returns the status and the request the decoder filled in.
MCP_INTERFACE_ParseJSONRequest(json) ==
    IF ~json.wellformed
    THEN [status |-> CFE_ES_ERR_APPNAME, request |-> ZeroRequest]
    ELSE IF ~cJSON_IsNumber(json.id)
    THEN [status |-> CFE_ES_ERR_APPNAME, request |-> ZeroRequest]
    ELSE IF ~cJSON_IsNumber(json.type)
    THEN [status |-> CFE_ES_ERR_APPNAME,
          request |-> [ZeroRequest EXCEPT !.id = json.id.num]]
    ELSE [status |-> CFE_SUCCESS,
          request |->
            [id |-> json.id.num,
             type |-> json.type.num,
             app_name |-> IF cJSON_IsString(json.app_name)
                          THEN strncpy(json.app_name.str, MCP_MAX_APP_NAME_LEN - 1)
                          ELSE S_EMPTY,
             command |-> IF cJSON_IsString(json.command)
                         THEN strncpy(json.command.str, MCP_MAX_CMD_NAME_LEN - 1)
                         ELSE S_EMPTY,
             params |-> IF cJSON_IsString(json.params)
                        THEN strncpy(json.params.str, MCP_MAX_JSON_SIZE - 1)
                        ELSE S_EMPTY,
             require_confirmation |->
                 cJSON_IsBool(json.require_confirmation)
                     /\ json.require_confirmation.bool,
             is_critical |->
                 cJSON_IsBool(json.is_critical) /\ json.is_critical.bool]]

\* The number of decimal digits "%u" prints for n: ten for the values from
\* 2^31 on.
RECURSIVE Digits(_)
Digits(n) ==
    IF n < 0 THEN 10
    ELSE IF n < 10 THEN 1 ELSE 1 + Digits(n \div 10)

\* The characters of the fallback frame's format other than its two "%u".
FALLBACK_TEXT_LEN == 75

\* strlen of the text snprintf writes for the fallback frame into a buffer
\* of max_len bytes.
FallbackLen(id, timestamp, max_len) ==
    LET n == FALLBACK_TEXT_LEN + Digits(id) + Digits(timestamp)
    IN  IF n < max_len THEN n ELSE max_len - 1

\* Mutant: the encoder that copies the text without checking its length.
FormatJSONResponse_NoLengthCheck(response, len, max_len) ==
    IF len = 0
    THEN [status |-> CFE_ES_ERR_APPNAME, json |-> NoFrame]
    ELSE [status |-> CFE_SUCCESS,
          json |->
            IF response.status = 0
            THEN [id |-> response.id, status |-> response.status,
                  timestamp |-> response.timestamp,
                  members |-> {"id", "status", "timestamp", "result"},
                  result |-> response.result, error |-> "", len |-> len]
            ELSE [id |-> response.id, status |-> response.status,
                  timestamp |-> response.timestamp,
                  members |-> {"id", "status", "timestamp", "error"},
                  result |-> "", error |-> response.error_msg, len |-> len]]

\* The frame cJSON_Print produces, by its members.  len is the length of
\* the text cJSON printed, 0 when cJSON could not build or print the object
\* (cJSON_CreateObject or cJSON_Print returned NULL).
MCP_INTERFACE_FormatJSONResponse(response, len, max_len) ==
    IF len = 0
    THEN [status |-> CFE_ES_ERR_APPNAME, json |-> NoFrame]
    ELSE IF len >= max_len
    THEN [status |-> CFE_ES_ERR_APPNAME, json |-> NoFrame]
    ELSE [status |-> CFE_SUCCESS,
          json |->
            IF response.status = 0
            THEN [id |-> response.id, status |-> response.status,
                  timestamp |-> response.timestamp,
                  members |-> {"id", "status", "timestamp", "result"},
                  result |-> response.result, error |-> "", len |-> len]
            ELSE [id |-> response.id, status |-> response.status,
                  timestamp |-> response.timestamp,
                  members |-> {"id", "status", "timestamp", "error"},
                  result |-> "", error |-> response.error_msg, len |-> len]]

\* Mutant: the sender whose fallback frame does not carry the response id.
SendMCPResponse_FallbackNoId(client_socket, response, DebugMode, env) ==
    LET formatted == MCP_INTERFACE_FormatJSONResponse(response, env.len,
                                                      MCP_MAX_JSON_SIZE)
        ok == formatted.status = CFE_SUCCESS
        json_str ==
            IF ~ok
            THEN [id |-> 0, status |-> -1, timestamp |-> response.timestamp,
                  members |-> {"id", "status", "error", "timestamp"},
                  result |-> "", error |-> "Failed to format response",
                  len |-> FallbackLen(0, response.timestamp, MCP_MAX_JSON_SIZE)]
            ELSE formatted.json
        formatting == <<Op("MCP_INTERFACE_FormatJSONResponse", IF ok THEN 1 ELSE 0)>>
    IN  IF ~env.tx
        THEN [result |-> CFE_ES_ERR_APPNAME, frame |-> json_str,
              socket |-> client_socket,
              ops |-> formatting
                      \o <<Op("send", 0), Event(MCP_INTERFACE_COMMAND_ERR_EID)>>]
        ELSE [result |-> CFE_SUCCESS, frame |-> json_str,
              socket |-> client_socket,
              ops |-> formatting \o <<Op("send", 1)>> \o
                      (IF DebugMode
                       THEN <<Event(MCP_INTERFACE_COMMAND_SUCCESS_INF_EID)>>
                       ELSE << >>)]

\* env.len: the length of the text cJSON prints for the response; env.tx:
\* send() did not fail.  Returns the return code, the frame handed to
\* send(), the socket it was handed to and the observable steps.
MCP_INTERFACE_SendMCPResponse(client_socket, response, DebugMode, env) ==
    LET formatted == MCP_INTERFACE_FormatJSONResponse(response, env.len,
                                                      MCP_MAX_JSON_SIZE)
        ok == formatted.status = CFE_SUCCESS
        json_str ==
            IF ~ok
            THEN [id |-> response.id, status |-> -1,
                  timestamp |-> response.timestamp,
                  members |-> {"id", "status", "error", "timestamp"},
                  result |-> "", error |-> "Failed to format response",
                  len |-> FallbackLen(response.id, response.timestamp,
                                      MCP_MAX_JSON_SIZE)]
            ELSE formatted.json
        formatting == <<Op("MCP_INTERFACE_FormatJSONResponse", IF ok THEN 1 ELSE 0)>>
    IN  IF ~env.tx
        THEN [result |-> CFE_ES_ERR_APPNAME, frame |-> json_str,
              socket |-> client_socket,
              ops |-> formatting
                      \o <<Op("send", 0), Event(MCP_INTERFACE_COMMAND_ERR_EID)>>]
        ELSE [result |-> CFE_SUCCESS, frame |-> json_str,
              socket |-> client_socket,
              ops |-> formatting \o <<Op("send", 1)>> \o
                      (IF DebugMode
                       THEN <<Event(MCP_INTERFACE_COMMAND_SUCCESS_INF_EID)>>
                       ELSE << >>)]


(***************************************************************************)
(* mcp_command_handlers.c.  A handler gets the request, the response as    *)
(* initialised by the caller, the application data, the time read from     *)
(* CFE_TIME_GetTime and the outcomes of the collaborators it calls; it     *)
(* returns its return code, the response, the application data and the     *)
(* observable steps it made.                                               *)
(***************************************************************************)
Returned(result, response, AppData, ops) ==
    [result |-> result, response |-> response, AppData |-> AppData, ops |-> ops]

\* Mutant: a send command that reports success whatever the software bus
\* returned.
HandleSendCommand_IgnoreStatus(request, response, AppData, time, env) ==
    LET limited ==
            /\ request.is_critical
            /\ time - AppData.LastCriticalCommandTime < CRITICAL_COOLDOWN
        counted == request.is_critical /\ ~limited
        AppData1 ==
            IF counted
            THEN [AppData EXCEPT !.CriticalCommandCount = @ + 1,
                                 !.LastCriticalCommandTime = time]
            ELSE AppData
        ops1 == IF counted
                THEN <<Event(MCP_INTERFACE_COMMAND_SUCCESS_INF_EID)>>
                ELSE << >>
    IN  IF strlen(request.app_name) = 0
        THEN Returned(CFE_ES_ERR_APPNAME,
                      Failed(response, "App name is required"), AppData, << >>)
        ELSE IF limited
        THEN Returned(CFE_ES_ERR_APPNAME,
                      Failed(response, "Critical command rate limit exceeded"),
                      AppData, << >>)
        ELSE IF /\ strcmp0(request.app_name, S_CFE_ES)
                /\ ~strcmp0(request.command, S_NOOP)
                /\ ~strcmp0(request.command, S_RESET_COUNTERS)
        THEN Returned(CFE_ES_ERR_APPNAME,
                      Failed(response, "Unknown command '%s' for app '%s'"),
                      AppData1, ops1)
        ELSE IF /\ strcmp0(request.app_name, S_FM)
                /\ ~strcmp0(request.command, S_GET_DIR_LIST)
        THEN Returned(CFE_ES_ERR_APPNAME,
                      Failed(response, "Unknown command '%s' for app '%s'"),
                      AppData1, ops1)
        ELSE IF /\ ~strcmp0(request.app_name, S_CFE_ES)
                /\ ~strcmp0(request.app_name, S_FM)
        THEN Returned(CFE_ES_ERR_APPNAME,
                      Failed(response, "Unknown app '%s'"), AppData1, ops1)
        ELSE IF env.sb = "nomsg"
        THEN Returned(CFE_SUCCESS,
                      Failed(response, "Failed to create command message"),
                      AppData1, ops1 \o <<Op("CFE_SB_CreateMsg", 0)>>)
        ELSE Returned(CFE_SUCCESS,
                      Succeeded(response, "{\"command_sent\": true, ...}"),
                      AppData1,
                      ops1 \o <<Op("CFE_SB_CreateMsg", 1),
                                Op("CFE_SB_SendMsg",
                                   IF env.sb = "senderr" THEN 0 ELSE 1)>>)

MCP_INTERFACE_HandleSendCommand(request, response, AppData, time, env) ==
    LET limited ==
            /\ request.is_critical
            /\ time - AppData.LastCriticalCommandTime < CRITICAL_COOLDOWN
        counted == request.is_critical /\ ~limited
        AppData1 ==
            IF counted
            THEN [AppData EXCEPT !.CriticalCommandCount = @ + 1,
                                 !.LastCriticalCommandTime = time]
            ELSE AppData
        ops1 == IF counted
                THEN <<Event(MCP_INTERFACE_COMMAND_SUCCESS_INF_EID)>>
                ELSE << >>
    IN  IF strlen(request.app_name) = 0
        THEN Returned(CFE_ES_ERR_APPNAME,
                      Failed(response, "App name is required"), AppData, << >>)
        ELSE IF limited
        THEN Returned(CFE_ES_ERR_APPNAME,
                      Failed(response, "Critical command rate limit exceeded"),
                      AppData, << >>)
        ELSE IF /\ strcmp0(request.app_name, S_CFE_ES)
                /\ ~strcmp0(request.command, S_NOOP)
                /\ ~strcmp0(request.command, S_RESET_COUNTERS)
        THEN Returned(CFE_ES_ERR_APPNAME,
                      Failed(response, "Unknown command '%s' for app '%s'"),
                      AppData1, ops1)
        ELSE IF /\ strcmp0(request.app_name, S_FM)
                /\ ~strcmp0(request.command, S_GET_DIR_LIST)
        THEN Returned(CFE_ES_ERR_APPNAME,
                      Failed(response, "Unknown command '%s' for app '%s'"),
                      AppData1, ops1)
        ELSE IF /\ ~strcmp0(request.app_name, S_CFE_ES)
                /\ ~strcmp0(request.app_name, S_FM)
        THEN Returned(CFE_ES_ERR_APPNAME,
                      Failed(response, "Unknown app '%s'"), AppData1, ops1)
        ELSE IF env.sb = "nomsg"
        THEN Returned(CFE_SUCCESS,
                      Failed(response, "Failed to create command message"),
                      AppData1, ops1 \o <<Op("CFE_SB_CreateMsg", 0)>>)
        ELSE IF env.sb = "senderr"
        THEN Returned(CFE_SUCCESS,
                      Failed(response, "Failed to send command, status = 0x%08X"),
                      AppData1,
                      ops1 \o <<Op("CFE_SB_CreateMsg", 1), Op("CFE_SB_SendMsg", 0)>>)
        ELSE Returned(CFE_SUCCESS,
                      Succeeded(response, "{\"command_sent\": true, ...}"),
                      AppData1,
                      ops1 \o <<Op("CFE_SB_CreateMsg", 1), Op("CFE_SB_SendMsg", 1)>>)

MCP_INTERFACE_HandleGetTelemetry(request, response, AppData, time, env) ==
    IF strcmp0(request.app_name, S_MCP_INTERFACE)
    THEN Returned(CFE_SUCCESS,
                  SucceededWith(response, "{\"app_name\": \"MCP_INTERFACE\", ...}",
                                Args(time,
                                     <<AppData.RequestCounter,
                                       AppData.SuccessCounter,
                                       AppData.ErrorCounter>>,
                                     <<AppData.CmdCounter, AppData.ErrCounter,
                                       AppData.ActiveClients,
                                       TrueFalse(AppData.SafetyMode),
                                       TrueFalse(AppData.DebugMode)>>)),
                  AppData, << >>)
    ELSE Returned(CFE_SUCCESS,
                  SucceededWith(response,
                                "{\"app_name\": \"%s\", \"status\": \"telemetry_not_available\", ...}",
                                Args(time, << >>, << >>)),
                  AppData, << >>)

\* Mutant: a status query that is answered once only.
HandleGetSystemStatus_FirstOnly(request, response, AppData, time, env) ==
    IF AppData.RequestCounter = 0
    THEN Returned(CFE_SUCCESS,
                  SucceededWith(response, "{\"system_status\": {...}}",
                                Args(time,
                                     <<AppData.RequestCounter,
                                       AppData.SuccessCounter,
                                       AppData.ErrorCounter>>,
                                     <<AppData.ActiveClients,
                                       TrueFalse(AppData.SafetyMode),
                                       TrueFalse(AppData.DebugMode)>>)),
                  AppData, << >>)
    ELSE Returned(CFE_ES_ERR_APPNAME,
                  Failed(response, "System status already reported"),
                  AppData, << >>)

MCP_INTERFACE_HandleGetSystemStatus(request, response, AppData, time, env) ==
    Returned(CFE_SUCCESS,
             SucceededWith(response, "{\"system_status\": {...}}",
                           Args(time,
                                <<AppData.RequestCounter, AppData.SuccessCounter,
                                  AppData.ErrorCounter>>,
                                <<AppData.ActiveClients,
                                  TrueFalse(AppData.SafetyMode),
                                  TrueFalse(AppData.DebugMode)>>)),
             AppData, << >>)

\* Mutant: a component manager that starts and stops without asking for a
\* confirmation.
HandleManageApp_NoConfirmation(request, response, AppData, time, env) ==
    IF strlen(request.app_name) = 0
    THEN Returned(CFE_ES_ERR_APPNAME,
                  Failed(response, "App name is required"), AppData, << >>)
    ELSE IF strcmp0(request.params, Q_START)
    THEN Returned(CFE_SUCCESS,
                  Succeeded(response, "{\"action\": \"start\", ...}"),
                  AppData, <<Event(MCP_INTERFACE_COMMAND_SUCCESS_INF_EID)>>)
    ELSE IF strcmp0(request.params, Q_STOP)
    THEN Returned(CFE_SUCCESS,
                  Succeeded(response, "{\"action\": \"stop\", ...}"),
                  AppData, <<Event(MCP_INTERFACE_COMMAND_SUCCESS_INF_EID)>>)
    ELSE IF strcmp0(request.params, Q_STATUS)
    THEN IF env.io
         THEN Returned(CFE_SUCCESS,
                       Succeeded(response,
                                 "{\"action\": \"status\", \"app_id\": %u, ...}"),
                       AppData, << >>)
         ELSE Returned(CFE_SUCCESS,
                       Succeeded(response,
                                 "{\"action\": \"status\", \"error\": \"App not found or error getting info\"}"),
                       AppData, << >>)
    ELSE Returned(CFE_ES_ERR_APPNAME,
                  Failed(response, "Unknown action in params: %s"),
                  AppData, << >>)

MCP_INTERFACE_HandleManageApp(request, response, AppData, time, env) ==
    LET confirmed == ~AppData.SafetyMode \/ request.require_confirmation
    IN  IF strlen(request.app_name) = 0
        THEN Returned(CFE_ES_ERR_APPNAME,
                      Failed(response, "App name is required"), AppData, << >>)
        ELSE IF strcmp0(request.params, Q_START)
        THEN IF confirmed
             THEN Returned(CFE_SUCCESS,
                           Succeeded(response, "{\"action\": \"start\", ...}"),
                           AppData,
                           <<Event(MCP_INTERFACE_COMMAND_SUCCESS_INF_EID)>>)
             ELSE Returned(CFE_ES_ERR_APPNAME,
                           Failed(response,
                                  "App start requires confirmation in safety mode"),
                           AppData, << >>)
        ELSE IF strcmp0(request.params, Q_STOP)
        THEN IF confirmed
             THEN Returned(CFE_SUCCESS,
                           Succeeded(response, "{\"action\": \"stop\", ...}"),
                           AppData,
                           <<Event(MCP_INTERFACE_COMMAND_SUCCESS_INF_EID)>>)
             ELSE Returned(CFE_ES_ERR_APPNAME,
                           Failed(response,
                                  "App stop requires confirmation in safety mode"),
                           AppData, << >>)
        ELSE IF strcmp0(request.params, Q_STATUS)
        THEN IF env.io
             THEN Returned(CFE_SUCCESS,
                           Succeeded(response,
                                     "{\"action\": \"status\", \"app_id\": %u, ...}"),
                           AppData, << >>)
             ELSE Returned(CFE_SUCCESS,
                           Succeeded(response,
                                     "{\"action\": \"status\", \"error\": \"App not found or error getting info\"}"),
                           AppData, << >>)
        ELSE Returned(CFE_ES_ERR_APPNAME,
                      Failed(response, "Unknown action in params: %s"),
                      AppData, << >>)

\* Mutant: the directory listing that returns its error code on a failed
\* opendir without filling in the response.
HandleGetFileList_NoErrorResponse(request, response, AppData, time, env) ==
    IF ~env.io
    THEN Returned(CFE_ES_ERR_APPNAME, response, AppData, <<Op("opendir", 0)>>)
    ELSE Returned(CFE_SUCCESS,
                  Succeeded(response, "{\"directory\": \"%s\", \"files\": [...]}"),
                  AppData, <<Op("opendir", 1)>>)

\* env.io: opendir(directory) != NULL.
MCP_INTERFACE_HandleGetFileList(request, response, AppData, time, env) ==
    IF ~env.io
    THEN Returned(CFE_ES_ERR_APPNAME,
                  Failed(response, "Failed to open directory: %s"),
                  AppData, <<Op("opendir", 0)>>)
    ELSE Returned(CFE_SUCCESS,
                  Succeeded(response, "{\"directory\": \"%s\", \"files\": [...]}"),
                  AppData, <<Op("opendir", 1)>>)

\* env.io: fopen(file_path, "r") != NULL.
MCP_INTERFACE_HandleReadFile(request, response, AppData, time, env) ==
    LET \* strncpy(file_path, params + 1, ...); file_path[strlen(file_path) - 1] = '\0'
        file_path == SubSeq(request.params, 2, Len(request.params) - 1)
    IN  IF strlen(request.params) < 3
        THEN Returned(CFE_ES_ERR_APPNAME,
                      Failed(response, "File path is required"), AppData, << >>)
        ELSE IF strstr(file_path, DOTDOT) \/ file_path[1] # "/"
        THEN Returned(CFE_ES_ERR_APPNAME,
                      Failed(response, "Invalid file path"), AppData, << >>)
        ELSE IF ~env.io
        THEN Returned(CFE_ES_ERR_APPNAME,
                      Failed(response, "Failed to open file: %s"),
                      AppData, <<Op("fopen", 0)>>)
        ELSE Returned(CFE_SUCCESS,
                      Succeeded(response, "{\"file_path\": \"%s\", \"size\": %zu, \"content\": \"%s\"}"),
                      AppData, <<Op("fopen", 1)>>)

\* Mutant: a write-file handler that writes the file once the request is
\* confirmed.
HandleWriteFile_Implemented(request, response, AppData, time, env) ==
    IF AppData.SafetyMode /\ ~request.require_confirmation
    THEN Returned(CFE_ES_ERR_APPNAME,
                  Failed(response,
                         "File write requires confirmation in safety mode"),
                  AppData, << >>)
    ELSE Returned(CFE_SUCCESS,
                  Succeeded(response, "{\"file_written\": true}"),
                  AppData, <<Op("fopen", 1), Op("fwrite", 1)>>)

MCP_INTERFACE_HandleWriteFile(request, response, AppData, time, env) ==
    IF AppData.SafetyMode /\ ~request.require_confirmation
    THEN Returned(CFE_ES_ERR_APPNAME,
                  Failed(response,
                         "File write requires confirmation in safety mode"),
                  AppData, << >>)
    ELSE Returned(CFE_ES_ERR_APPNAME,
                  Failed(response,
                         "File write operation not implemented for safety reasons"),
                  AppData, <<Event(MCP_INTERFACE_SAFETY_ERR_EID)>>)

MCP_INTERFACE_HandleGetEventLog(request, response, AppData, time, env) ==
    Returned(CFE_SUCCESS,
             SucceededWith(response, "{\"event_log\": {...}}",
                           Args(time, << >>, << >>)),
             AppData, << >>)

\* Mutant: an emergency stop that toggles the safety mode instead of setting it.
HandleEmergencyStop_Toggle(request, response, AppData, time, env) ==
    Returned(CFE_SUCCESS,
             SucceededWith(response,
                           "{\"emergency_stop\": {\"status\": \"executed\", ...}}",
                           Args(time, << >>, << >>)),
             [AppData EXCEPT !.SafetyMode = ~@],
             <<Event(MCP_INTERFACE_SAFETY_ERR_EID)>>)

MCP_INTERFACE_HandleEmergencyStop(request, response, AppData, time, env) ==
    Returned(CFE_SUCCESS,
             SucceededWith(response,
                           "{\"emergency_stop\": {\"status\": \"executed\", ...}}",
                           Args(time, << >>, << >>)),
             [AppData EXCEPT !.SafetyMode = TRUE],
             <<Event(MCP_INTERFACE_SAFETY_ERR_EID)>>)


(***************************************************************************)
(* mcp_interface_app.c: the request pipeline.                              *)
(***************************************************************************)
\* Mutant: a switch in which type 6 is read file and type 5 is write file.
Dispatch_SixReads(request, response, AppData, time, env) ==
    CASE request.type = MCP_CMD_SEND_COMMAND ->
            MCP_INTERFACE_HandleSendCommand(request, response, AppData, time, env)
      [] request.type = MCP_CMD_GET_TELEMETRY ->
            MCP_INTERFACE_HandleGetTelemetry(request, response, AppData, time, env)
      [] request.type = MCP_CMD_GET_SYSTEM_STATUS ->
            MCP_INTERFACE_HandleGetSystemStatus(request, response, AppData, time, env)
      [] request.type = MCP_CMD_MANAGE_APP ->
            MCP_INTERFACE_HandleManageApp(request, response, AppData, time, env)
      [] request.type = MCP_CMD_GET_FILE_LIST ->
            MCP_INTERFACE_HandleGetFileList(request, response, AppData, time, env)
      [] request.type = MCP_CMD_READ_FILE ->
            MCP_INTERFACE_HandleWriteFile(request, response, AppData, time, env)
      [] request.type = MCP_CMD_WRITE_FILE ->
            MCP_INTERFACE_HandleReadFile(request, response, AppData, time, env)
      [] request.type = MCP_CMD_GET_EVENT_LOG ->
            MCP_INTERFACE_HandleGetEventLog(request, response, AppData, time, env)
      [] request.type = MCP_CMD_EMERGENCY_STOP ->
            MCP_INTERFACE_HandleEmergencyStop(request, response, AppData, time, env)
      [] OTHER ->
            Returned(CFE_ES_ERR_APPNAME,
                     Failed(response, "Unknown command type: %d"), AppData, << >>)

\* The switch on request->type.
Dispatch(request, response, AppData, time, env) ==
    CASE request.type = MCP_CMD_SEND_COMMAND ->
            MCP_INTERFACE_HandleSendCommand(request, response, AppData, time, env)
      [] request.type = MCP_CMD_GET_TELEMETRY ->
            MCP_INTERFACE_HandleGetTelemetry(request, response, AppData, time, env)
      [] request.type = MCP_CMD_GET_SYSTEM_STATUS ->
            MCP_INTERFACE_HandleGetSystemStatus(request, response, AppData, time, env)
      [] request.type = MCP_CMD_MANAGE_APP ->
            MCP_INTERFACE_HandleManageApp(request, response, AppData, time, env)
      [] request.type = MCP_CMD_GET_FILE_LIST ->
            MCP_INTERFACE_HandleGetFileList(request, response, AppData, time, env)
      [] request.type = MCP_CMD_READ_FILE ->
            MCP_INTERFACE_HandleReadFile(request, response, AppData, time, env)
      [] request.type = MCP_CMD_WRITE_FILE ->
            MCP_INTERFACE_HandleWriteFile(request, response, AppData, time, env)
      [] request.type = MCP_CMD_GET_EVENT_LOG ->
            MCP_INTERFACE_HandleGetEventLog(request, response, AppData, time, env)
      [] request.type = MCP_CMD_EMERGENCY_STOP ->
            MCP_INTERFACE_HandleEmergencyStop(request, response, AppData, time, env)
      [] OTHER ->
            Returned(CFE_ES_ERR_APPNAME,
                     Failed(response, "Unknown command type: %d"), AppData, << >>)

\* Mutant: the bookkeeping that counts by the handler's return code alone.
UpdateCounters_ByReturnCode(AppData, result, response) ==
    IF result = CFE_SUCCESS
    THEN [AppData EXCEPT !.RequestCounter = @ + 1, !.SuccessCounter = @ + 1]
    ELSE [AppData EXCEPT !.RequestCounter = @ + 1, !.ErrorCounter = @ + 1]

\* Mutant: the bookkeeping that counts a request only when it succeeded.
UpdateCounters_SuccessesOnly(AppData, result, response) ==
    IF result = CFE_SUCCESS /\ response.status = 0
    THEN [AppData EXCEPT !.RequestCounter = @ + 1, !.SuccessCounter = @ + 1]
    ELSE [AppData EXCEPT !.ErrorCounter = @ + 1]

\* "Update counters": RequestCounter++ and one of SuccessCounter, ErrorCounter.
UpdateCounters(AppData, result, response) ==
    IF result = CFE_SUCCESS /\ response.status = 0
    THEN [AppData EXCEPT !.RequestCounter = @ + 1, !.SuccessCounter = @ + 1]
    ELSE [AppData EXCEPT !.RequestCounter = @ + 1, !.ErrorCounter = @ + 1]

\* MCP_INTERFACE_HandleMCPRequest up to its call of SendMCPResponse, as a
\* function of the request, the application data, the clock and the
\* collaborators' outcomes: the response, the application's state and what
\* was called on the way.
AnswerMCPRequest(request, AppData, time, env) ==
    LET response0 == [ZeroResponse EXCEPT !.id = request.id, !.timestamp = time]
    IN  IF MCP_INTERFACE_ValidateRequest(request) # CFE_SUCCESS
        THEN [response |-> Failed(response0, "Invalid request parameters"),
              AppData |-> [AppData EXCEPT !.ErrorCounter = @ + 1],
              ops |-> <<Op("MCP_INTERFACE_ValidateRequest", 0)>>]
        ELSE
        LET gate == MCP_INTERFACE_IsSafeCommand(request, AppData.SafetyMode)
        IN  IF ~gate.safe
            THEN [response |-> Failed(response0, "Command blocked by safety system"),
                  AppData |-> [AppData EXCEPT !.ErrorCounter = @ + 1],
                  ops |-> <<Op("MCP_INTERFACE_ValidateRequest", 1)>>
                          \o gate.ops
                          \o <<Op("MCP_INTERFACE_IsSafeCommand", 0)>>
                          \o MCP_INTERFACE_LogSafetyEvent(MCP_INTERFACE_SAFETY_ERR_EID)]
            ELSE LET handled == Dispatch(request, response0, AppData, time, env)
                 IN  [response |-> handled.response,
                      AppData |-> UpdateCounters(handled.AppData, handled.result,
                                                 handled.response),
                      ops |-> <<Op("MCP_INTERFACE_ValidateRequest", 1)>>
                              \o gate.ops
                              \o <<Op("MCP_INTERFACE_IsSafeCommand", 1),
                                   Op("dispatch", request.type)>>
                              \o handled.ops]

\* The call of SendMCPResponse that ends every path of HandleMCPRequest.
SendAnswer(client_socket, answer, env) ==
    LET sent == MCP_INTERFACE_SendMCPResponse(client_socket, answer.response,
                                              answer.AppData.DebugMode, env)
    IN  [response |-> answer.response, AppData |-> answer.AppData,
         frame |-> sent.frame, socket |-> sent.socket, result |-> sent.result,
         ops |-> answer.ops \o sent.ops]

(***************************************************************************)
(* mcp_interface_app.c: the connection table of ProcessMCPClients.         *)
(***************************************************************************)
Slots == 0..(MCP_MAX_CLIENTS - 1)

\* Mutant: an admission that gives slot 0 to the new peer when no slot is
\* free.
AcceptConnection_Overwrite(AppData, new_client) ==
    IF \E k \in Slots : AppData.ClientSockets[k] = -1
    THEN LET k == CHOOSE k \in Slots :
                      /\ AppData.ClientSockets[k] = -1
                      /\ \A j \in Slots : j < k => AppData.ClientSockets[j] # -1
         IN  [AppData |-> [AppData EXCEPT !.ClientSockets[k] = new_client,
                                          !.ActiveClients = @ + 1],
              ops |-> <<Event(MCP_INTERFACE_CLIENT_CONNECT_INF_EID)>>]
    ELSE [AppData |-> [AppData EXCEPT !.ClientSockets[0] = new_client],
          ops |-> <<Op("close", AppData.ClientSockets[0]),
                    Event(MCP_INTERFACE_COMMAND_ERR_EID)>>]

\* Mutant: an admission that counts the peer it rejects.
AcceptConnection_CountRejected(AppData, new_client) ==
    IF \E k \in Slots : AppData.ClientSockets[k] = -1
    THEN LET k == CHOOSE k \in Slots :
                      /\ AppData.ClientSockets[k] = -1
                      /\ \A j \in Slots : j < k => AppData.ClientSockets[j] # -1
         IN  [AppData |-> [AppData EXCEPT !.ClientSockets[k] = new_client,
                                          !.ActiveClients = @ + 1],
              ops |-> <<Event(MCP_INTERFACE_CLIENT_CONNECT_INF_EID)>>]
    ELSE [AppData |-> [AppData EXCEPT !.ActiveClients = @ + 1],
          ops |-> <<Op("close", new_client),
                    Event(MCP_INTERFACE_COMMAND_ERR_EID)>>]

\* "Find empty slot for new client": the loop over the slots that stops at
\* the first free one, and the rejection when it found none.
AcceptConnection(AppData, new_client) ==
    IF \E k \in Slots : AppData.ClientSockets[k] = -1
    THEN LET k == CHOOSE k \in Slots :
                      /\ AppData.ClientSockets[k] = -1
                      /\ \A j \in Slots : j < k => AppData.ClientSockets[j] # -1
         IN  [AppData |-> [AppData EXCEPT !.ClientSockets[k] = new_client,
                                          !.ActiveClients = @ + 1],
              ops |-> <<Event(MCP_INTERFACE_CLIENT_CONNECT_INF_EID)>>]
    ELSE [AppData |-> AppData,
          ops |-> <<Op("close", new_client),
                    Event(MCP_INTERFACE_COMMAND_ERR_EID)>>]

\* bytes_received == 0 || (bytes_received < 0 && errno != EAGAIN &&
\* errno != EWOULDBLOCK)
ClientGone(bytes_received, errno) ==
    \/ bytes_received = 0
    \/ /\ bytes_received < 0
       /\ errno # "EAGAIN"
       /\ errno # "EWOULDBLOCK"

\* Mutant: a disconnection that frees the slot and keeps the count.
DisconnectClient_KeepCount(AppData, i) ==
    [AppData |-> [AppData EXCEPT !.ClientSockets[i] = -1],
     ops |-> <<Op("close", AppData.ClientSockets[i]),
               Event(MCP_INTERFACE_CLIENT_DISCONNECT_INF_EID)>>]

\* "Client disconnected or error": close, free the slot, count down.
DisconnectClient(AppData, i) ==
    [AppData |-> [AppData EXCEPT !.ClientSockets[i] = -1,
                                 !.ActiveClients = @ - 1],
     ops |-> <<Op("close", AppData.ClientSockets[i]),
               Event(MCP_INTERFACE_CLIENT_DISCONNECT_INF_EID)>>]

(***************************************************************************)
(* mcp_interface_app.c: the command pipe.  A packet is its message id, its *)
(* command code and whether its length is the one the command expects.     *)
(***************************************************************************)
MCP_INTERFACE_CMD_MID == "MCP_INTERFACE_CMD_MID"
MCP_INTERFACE_HK_REQ_MID == "MCP_INTERFACE_HK_REQ_MID"
OTHER_MID == "OTHER_MID"

\* CmdCounter and ErrCounter are uint8.
Inc8(n) == (n + 1) % 256

\* Returns the verdict, the application data and the events sent.
MCP_INTERFACE_VerifyCmdLength(AppData, length_ok) ==
    IF ~length_ok
    THEN [result |-> FALSE,
          AppData |-> [AppData EXCEPT !.ErrCounter = Inc8(@)],
          ops |-> <<Event(MCP_INTERFACE_COMMAND_ERR_EID)>>]
    ELSE [result |-> TRUE, AppData |-> AppData, ops |-> << >>]

\* Mutant: a reset that also forgets the critical commands.
ResetCounters_All(AppData) ==
    [AppData |-> [AppData EXCEPT !.CmdCounter = 0, !.ErrCounter = 0,
                                 !.RequestCounter = 0, !.SuccessCounter = 0,
                                 !.ErrorCounter = 0,
                                 !.CriticalCommandCount = 0,
                                 !.LastCriticalCommandTime = 0],
     ops |-> <<Event(MCP_INTERFACE_COMMAND_SUCCESS_INF_EID)>>]

\* Mutant: a reset that leaves ErrorCounter as it is.
ResetCounters_KeepErrors(AppData) ==
    [AppData |-> [AppData EXCEPT !.CmdCounter = 0, !.ErrCounter = 0,
                                 !.RequestCounter = 0, !.SuccessCounter = 0],
     ops |-> <<Event(MCP_INTERFACE_COMMAND_SUCCESS_INF_EID)>>]

MCP_INTERFACE_ResetCounters(AppData) ==
    [AppData |-> [AppData EXCEPT !.CmdCounter = 0, !.ErrCounter = 0,
                                 !.RequestCounter = 0, !.SuccessCounter = 0,
                                 !.ErrorCounter = 0],
     ops |-> <<Event(MCP_INTERFACE_COMMAND_SUCCESS_INF_EID)>>]

\* The housekeeping packet copies six counters and goes out on the bus.
MCP_INTERFACE_ReportHousekeeping(AppData) ==
    [AppData |-> AppData,
     ops |-> <<Op("HkTlm.CmdCounter", AppData.CmdCounter),
               Op("HkTlm.ErrCounter", AppData.ErrCounter),
               Op("HkTlm.ActiveClients", AppData.ActiveClients),
               Op("HkTlm.RequestCounter", AppData.RequestCounter),
               Op("HkTlm.SuccessCounter", AppData.SuccessCounter),
               Op("HkTlm.ErrorCounter", AppData.ErrorCounter),
               Op("CFE_SB_SendMsg(HkTlm)", 1)>>]

\* Mutant: ground commands whose debug mode switches the safe mode off.
ProcessGroundCommand_DebugIsPermissive(AppData, CommandCode, length_ok) ==
    LET verified == MCP_INTERFACE_VerifyCmdLength(AppData, length_ok)
        Counted(data) ==
            [AppData |-> [data EXCEPT !.CmdCounter = Inc8(@)],
             ops |-> <<Event(MCP_INTERFACE_COMMAND_SUCCESS_INF_EID)>>]
        Refused == [AppData |-> verified.AppData, ops |-> verified.ops]
    IN  CASE CommandCode = MCP_INTERFACE_NOOP_CC ->
                IF verified.result THEN Counted(AppData) ELSE Refused
          [] CommandCode = MCP_INTERFACE_RESET_COUNTERS_CC ->
                IF verified.result THEN MCP_INTERFACE_ResetCounters(AppData)
                ELSE Refused
          [] CommandCode = MCP_INTERFACE_ENABLE_DEBUG_CC ->
                IF verified.result
                THEN Counted([AppData EXCEPT !.DebugMode = TRUE,
                                             !.SafetyMode = FALSE])
                ELSE Refused
          [] CommandCode = MCP_INTERFACE_DISABLE_DEBUG_CC ->
                IF verified.result
                THEN Counted([AppData EXCEPT !.DebugMode = FALSE])
                ELSE Refused
          [] OTHER ->
                [AppData |-> [AppData EXCEPT !.ErrCounter = Inc8(@)],
                 ops |-> <<Event(MCP_INTERFACE_COMMAND_ERR_EID)>>]

MCP_INTERFACE_ProcessGroundCommand(AppData, CommandCode, length_ok) ==
    LET verified == MCP_INTERFACE_VerifyCmdLength(AppData, length_ok)
        Counted(data) ==
            [AppData |-> [data EXCEPT !.CmdCounter = Inc8(@)],
             ops |-> <<Event(MCP_INTERFACE_COMMAND_SUCCESS_INF_EID)>>]
        Refused == [AppData |-> verified.AppData, ops |-> verified.ops]
    IN  CASE CommandCode = MCP_INTERFACE_NOOP_CC ->
                IF verified.result THEN Counted(AppData) ELSE Refused
          [] CommandCode = MCP_INTERFACE_RESET_COUNTERS_CC ->
                IF verified.result THEN MCP_INTERFACE_ResetCounters(AppData)
                ELSE Refused
          [] CommandCode = MCP_INTERFACE_ENABLE_DEBUG_CC ->
                IF verified.result
                THEN Counted([AppData EXCEPT !.DebugMode = TRUE])
                ELSE Refused
          [] CommandCode = MCP_INTERFACE_DISABLE_DEBUG_CC ->
                IF verified.result
                THEN Counted([AppData EXCEPT !.DebugMode = FALSE])
                ELSE Refused
          [] OTHER ->
                [AppData |-> [AppData EXCEPT !.ErrCounter = Inc8(@)],
                 ops |-> <<Event(MCP_INTERFACE_COMMAND_ERR_EID)>>]

MCP_INTERFACE_ProcessCommandPacket(AppData, packet) ==
    CASE packet.MsgId = MCP_INTERFACE_HK_REQ_MID ->
            MCP_INTERFACE_ReportHousekeeping(AppData)
      [] packet.MsgId = MCP_INTERFACE_CMD_MID ->
            LET out == MCP_INTERFACE_ProcessGroundCommand(
                           AppData, packet.CommandCode, packet.length_ok)
            IN  [AppData |-> out.AppData,
                 ops |-> <<Op("MCP_INTERFACE_ProcessGroundCommand",
                              packet.CommandCode)>> \o out.ops]
      [] OTHER ->
            [AppData |-> AppData,
             ops |-> <<Event(MCP_INTERFACE_COMMAND_ERR_EID)>>]

\* The packets the command pipe delivers: a housekeeping request, a packet
\* of another message id, and ground commands of every code and one code
\* more, with the expected length and with another.
Packets ==
    {[MsgId |-> MCP_INTERFACE_HK_REQ_MID, CommandCode |-> 0, length_ok |-> TRUE],
     [MsgId |-> OTHER_MID, CommandCode |-> 0, length_ok |-> TRUE]}
    \cup [MsgId : {MCP_INTERFACE_CMD_MID},
          CommandCode : MCP_INTERFACE_NOOP_CC..(MCP_INTERFACE_DISABLE_DEBUG_CC + 1),
          length_ok : BOOLEAN]

(***************************************************************************)
(* The requests the model draws from.                                      *)
(***************************************************************************)
\* The reserved id and a valid one.
Ids == {0, 1}
Types == 0..MCP_CMD_MAX

\* app_name names the target of send command, get telemetry and manage
\* component; the gate reads it for every kind.
AppNamesOf(type) ==
    IF type \in {MCP_CMD_SEND_COMMAND, MCP_CMD_GET_TELEMETRY, MCP_CMD_MANAGE_APP}
    THEN {S_EMPTY, S_CFE_ES, S_FM}
    ELSE {S_EMPTY, S_CFE_ES}

\* command names an action of send command; the gate reads it for every kind.
CommandsOf(type) ==
    IF type = MCP_CMD_SEND_COMMAND
    THEN {S_EMPTY, S_NOOP, S_GET_DIR_LIST, <<"s","t","o","p">>}
    ELSE {S_EMPTY, <<"s","t","o","p">>}

\* params carries kind-specific parameters: an action for manage component,
\* a quoted path for the file kinds.
ParamsOf(type) ==
    CASE type \in {MCP_CMD_SEND_COMMAND, MCP_CMD_GET_TELEMETRY} ->
            {S_EMPTY, Q_STOP}
      [] type = MCP_CMD_MANAGE_APP ->
            {Q_START, Q_STOP, Q_STATUS,
             <<"\"","r","e","s","t","a","r","t","\"">>}
      [] type = MCP_CMD_GET_FILE_LIST ->
            {S_EMPTY, <<"\"","/","c","f","\"">>}
      [] type = MCP_CMD_READ_FILE ->
            {<<"\"","\"">>, <<"\"","/","e","t","c","/","x","\"">>,
             <<"\"","/","c","f","/","a","\"">>, <<"\"","a","\"">>}
      [] type = MCP_CMD_WRITE_FILE ->
            {S_EMPTY, <<"\"","\"">>, <<"\"","/","e","t","c","/","x","\"">>,
             <<"\"","/","c","f","/","a","\"">>}
      [] OTHER -> {S_EMPTY}

Requests ==
    UNION {[id : Ids, type : {t}, app_name : AppNamesOf(t), command : CommandsOf(t),
            params : ParamsOf(t), require_confirmation : BOOLEAN,
            is_critical : BOOLEAN] : t \in Types}

\* The lengths of the text cJSON prints for a response: 0 when it returns
\* NULL, the longest that fits json_str and the shortest that does not.
PrintedLengths == {0, MCP_MAX_JSON_SIZE - 1, MCP_MAX_JSON_SIZE}

\* The outcomes of the collaborators the handling of a request may call:
\* sb, the software bus (CFE_SB_CreateMsg returns NULL, CFE_SB_SendMsg
\* fails, or the message is sent); io, whether opendir, fopen or
\* CFE_ES_GetAppInfo succeeds.
EnvOf(request) ==
    [sb : IF request.type = MCP_CMD_SEND_COMMAND
          THEN {"ok", "nomsg", "senderr"} ELSE {"ok"},
     io : IF request.type \in {MCP_CMD_MANAGE_APP, MCP_CMD_GET_FILE_LIST,
                               MCP_CMD_READ_FILE}
          THEN BOOLEAN ELSE {TRUE}]

\* The outcomes of the collaborators of SendMCPResponse: len, the length of
\* the text cJSON prints for the response; tx, whether send() succeeds.
SendEnv == [len : PrintedLengths, tx : BOOLEAN]

\* The same with a socket that takes every frame.
Delivered == [len : PrintedLengths, tx : {TRUE}]

(***************************************************************************)
(* The frames the model draws from.                                        *)
(***************************************************************************)
\* The buffer before any frame was read.
NoBuffer ==
    [wellformed |-> FALSE, id |-> JAbsent, type |-> JAbsent,
     app_name |-> JAbsent, command |-> JAbsent, params |-> JAbsent,
     require_confirmation |-> JAbsent, is_critical |-> JAbsent]

\* The frame of a client that sends every member of the request r.
FrameOf(r) ==
    [wellformed |-> TRUE, id |-> JNumber(r.id), type |-> JNumber(r.type),
     app_name |-> JString(r.app_name), command |-> JString(r.command),
     params |-> JString(r.params),
     require_confirmation |-> JBool(r.require_confirmation),
     is_critical |-> JBool(r.is_critical)]

\* The frames of the request specification: every request, spelled out.
RequestFrames == {FrameOf(r) : r \in Requests}

\* Frames that are not a request: text that is not JSON, and objects whose
\* id or type is missing or is not a number.
BadFrames ==
    {NoBuffer,
     [NoBuffer EXCEPT !.wellformed = TRUE, !.type = JNumber(MCP_CMD_EMERGENCY_STOP)],
     [NoBuffer EXCEPT !.wellformed = TRUE, !.id = JString(<<"1">>),
                      !.type = JNumber(MCP_CMD_EMERGENCY_STOP)],
     [NoBuffer EXCEPT !.wellformed = TRUE, !.id = JNumber(1)],
     [NoBuffer EXCEPT !.wellformed = TRUE, !.id = JNumber(1),
                      !.type = JString(<<"8">>)]}

\* A target name of 21 characters and an action name of 32.
LongAppName ==
    <<"M","C","P","_","I","N","T","E","R","F","A","C","E","_","S","T","A","N",
      "D","B","Y">>
LongCommand ==
    <<"N","O","O","P","_","_","_","_","_","_","_","_","_","_","_","_","_","_",
      "_","_","_","_","_","_","_","_","_","_","_","_","_","X">>

\* The frames of the connection specification: a status query, a request
\* with the reserved id, an unconfirmed stop, an emergency stop, requests
\* whose target or action name is longer than its field, and frames that
\* omit the optional members.
ClientFrames ==
    {FrameOf([ZeroRequest EXCEPT !.id = 1, !.type = MCP_CMD_GET_SYSTEM_STATUS]),
     FrameOf([ZeroRequest EXCEPT !.type = MCP_CMD_GET_SYSTEM_STATUS]),
     FrameOf([ZeroRequest EXCEPT !.id = 1, !.type = MCP_CMD_GET_EVENT_LOG,
                                 !.command = <<"s","t","o","p">>]),
     FrameOf([ZeroRequest EXCEPT !.id = 1, !.type = MCP_CMD_GET_TELEMETRY,
                                 !.app_name = LongAppName]),
     FrameOf([ZeroRequest EXCEPT !.id = 1, !.type = MCP_CMD_SEND_COMMAND,
                                 !.app_name = S_FM, !.command = LongCommand]),
     FrameOf([ZeroRequest EXCEPT !.id = 2, !.type = MCP_CMD_SEND_COMMAND,
                                 !.app_name = S_FM, !.command = S_GET_DIR_LIST]),
     FrameOf([ZeroRequest EXCEPT !.id = 2, !.type = MCP_CMD_READ_FILE,
                                 !.params = <<"\"","/","c","f","/","a","\"">>]),
     [NoBuffer EXCEPT !.wellformed = TRUE, !.id = JNumber(1),
                      !.type = JNumber(MCP_CMD_EMERGENCY_STOP)]}

\* Frames whose id or type is a negative number.
SignedFrames ==
    {FrameOf([ZeroRequest EXCEPT !.id = -1, !.type = MCP_CMD_GET_SYSTEM_STATUS]),
     FrameOf([ZeroRequest EXCEPT !.id = -1, !.type = MCP_CMD_SEND_COMMAND]),
     FrameOf([ZeroRequest EXCEPT !.id = 1, !.type = -1]),
     FrameOf([ZeroRequest EXCEPT !.id = 1, !.type = -1,
                                 !.require_confirmation = TRUE])}

\* What recv delivers under the request specification and under the
\* connection specification.
Frames == RequestFrames \cup BadFrames \cup SignedFrames

FewFrames == ClientFrames \cup BadFrames

\* The frames of the main-loop specification: a status query, a confirmed
\* critical command, an unconfirmed stop, a request with the reserved id, a
\* request of each other kind and text that is not JSON.
LoopFrames ==
    {FrameOf([ZeroRequest EXCEPT !.id = 1, !.type = MCP_CMD_GET_SYSTEM_STATUS]),
     FrameOf([ZeroRequest EXCEPT !.id = 1, !.type = MCP_CMD_SEND_COMMAND,
                                 !.app_name = S_CFE_ES, !.command = S_NOOP,
                                 !.require_confirmation = TRUE,
                                 !.is_critical = TRUE]),
     FrameOf([ZeroRequest EXCEPT !.id = 1, !.type = MCP_CMD_GET_EVENT_LOG,
                                 !.command = <<"s","t","o","p">>]),
     FrameOf([ZeroRequest EXCEPT !.type = MCP_CMD_GET_SYSTEM_STATUS]),
     FrameOf([ZeroRequest EXCEPT !.id = 1, !.type = MCP_CMD_GET_TELEMETRY,
                                 !.app_name = S_MCP_INTERFACE]),
     FrameOf([ZeroRequest EXCEPT !.id = 1, !.type = MCP_CMD_MANAGE_APP,
                                 !.app_name = S_FM, !.params = Q_STATUS]),
     FrameOf([ZeroRequest EXCEPT !.id = 1, !.type = MCP_CMD_GET_FILE_LIST]),
     FrameOf([ZeroRequest EXCEPT !.id = 1, !.type = MCP_CMD_READ_FILE,
                                 !.params = <<"\"","/","c","f","/","a","\"">>]),
     FrameOf([ZeroRequest EXCEPT !.id = 1, !.type = MCP_CMD_WRITE_FILE,
                                 !.params = <<"\"","/","c","f","/","a","\"">>,
                                 !.require_confirmation = TRUE,
                                 !.is_critical = TRUE]),
     FrameOf([ZeroRequest EXCEPT !.id = 1, !.type = MCP_CMD_EMERGENCY_STOP,
                                 !.is_critical = TRUE]),
     NoBuffer}

\* What ParseJSONRequest makes of each of these frames.
Parsed ==
    [json \in Frames \cup FewFrames \cup LoopFrames |->
        MCP_INTERFACE_ParseJSONRequest(json)]

\* What recv reports when it delivers no frame: the peer closed, no data is
\* ready, or the transport failed.
RecvFailures ==
    {[bytes_received |-> 0, errno |-> "0"],
     [bytes_received |-> -1, errno |-> "EAGAIN"],
     [bytes_received |-> -1, errno |-> "EWOULDBLOCK"],
     [bytes_received |-> -1, errno |-> "ECONNRESET"]}

\* The descriptors accept may return: the request specification has one
\* client, the connection specification more clients than slots.
OneClient == {4}
Peers == 4..(3 + MaxPeers)

(***************************************************************************)
(* State.                                                                  *)
(***************************************************************************)
VARIABLES
    MCP_INTERFACE_AppData,  \* the application's global data
    now,                    \* CFE_TIME_GetTime().Seconds
    pc,                     \* where ProcessMCPClients is
    i,                      \* the slot index of its loop
    buffer,                 \* the frame read from the client of slot i
    bytes_received,         \* what recv returned for slot i
    errno,                  \* and the errno it left
    request,                \* the request parsed from the frame
    response,               \* the response built for it
    frame,                  \* the frame handed to send()
    sent_to,                \* the socket it was handed to
    trace,                  \* the observable steps of this step of the loop
    entry                   \* the application data when the step began

vars == <<MCP_INTERFACE_AppData, now, pc, i, buffer, bytes_received, errno,
          request, response, frame, sent_to, trace, entry>>

\* The locals of one iteration of the slot loop.
locals == <<buffer, bytes_received, errno, request, response, frame, sent_to>>

\* MCP_INTERFACE_AppInit and MCP_INTERFACE_InitSocket
InitAppData ==
    [CmdCounter |-> 0, ErrCounter |-> 0,
     ClientSockets |-> [k \in Slots |-> -1], ActiveClients |-> 0,
     DebugMode |-> FALSE,
     RequestCounter |-> 0, SuccessCounter |-> 0, ErrorCounter |-> 0,
     SafetyMode |-> TRUE, CriticalCommandCount |-> 0,
     LastCriticalCommandTime |-> 0]

Init ==
    /\ MCP_INTERFACE_AppData = InitAppData
    /\ now = 0
    /\ pc = "idle"
    /\ i = 0
    /\ buffer = NoBuffer
    /\ bytes_received = 0
    /\ errno = "0"
    /\ request = ZeroRequest
    /\ response = ZeroResponse
    /\ frame = NoFrame
    /\ sent_to = -1
    /\ trace = << >>
    /\ entry = InitAppData

\* A second of spacecraft time passes between two calls of ProcessMCPClients.
Tick ==
    /\ pc = "idle"
    /\ now < MaxTime
    /\ now' = now + 1
    /\ UNCHANGED <<MCP_INTERFACE_AppData, pc, i, locals, trace, entry>>

\* ProcessMCPClients begins: accept() returns -1 or the descriptor of a new
\* peer, the lowest of peers that is not open.
Accept(peers) ==
    /\ pc = "idle"
    /\ LET open == {MCP_INTERFACE_AppData.ClientSockets[k] : k \in Slots}
           free == peers \ open
           lowest == CHOOSE fd \in free : \A other \in free : fd <= other
       IN  \E new_client \in {-1} \cup (IF free = {} THEN {} ELSE {lowest}) :
             IF new_client >= 0
             THEN LET out == AcceptConnection(MCP_INTERFACE_AppData, new_client)
                  IN  /\ MCP_INTERFACE_AppData' = out.AppData
                      /\ trace' = <<Op("accept", new_client)>> \o out.ops
             ELSE /\ MCP_INTERFACE_AppData' = MCP_INTERFACE_AppData
                  /\ trace' = <<Op("accept", new_client)>>
    /\ entry' = MCP_INTERFACE_AppData
    /\ i' = 0
    /\ pc' = "poll"
    /\ UNCHANGED <<now, locals>>

\* The slot loop passes a free slot.
Skip ==
    /\ pc = "poll"
    /\ i < MCP_MAX_CLIENTS
    /\ MCP_INTERFACE_AppData.ClientSockets[i] = -1
    /\ i' = i + 1
    /\ trace' = << >>
    /\ entry' = MCP_INTERFACE_AppData
    /\ UNCHANGED <<MCP_INTERFACE_AppData, now, pc, locals>>

\* recv returned a frame and ParseJSONRequest decoded it.
Receive(frames) ==
    /\ pc = "poll"
    /\ i < MCP_MAX_CLIENTS
    /\ MCP_INTERFACE_AppData.ClientSockets[i] # -1
    /\ MCP_INTERFACE_AppData.SuccessCounter
         + MCP_INTERFACE_AppData.ErrorCounter < MaxRequests
    /\ \E json \in frames :
         LET parsed == Parsed[json]
         IN  /\ parsed.status = CFE_SUCCESS
             /\ buffer' = json
             /\ request' = parsed.request
    /\ bytes_received' = 1
    /\ errno' = "0"
    /\ pc' = "parsed"
    /\ trace' = << >>
    /\ entry' = MCP_INTERFACE_AppData
    /\ UNCHANGED <<MCP_INTERFACE_AppData, now, i, response, frame, sent_to>>

\* recv returned a frame and ParseJSONRequest failed: the fixed response.
ReceiveInvalid(frames, wires) ==
    /\ pc = "poll"
    /\ i < MCP_MAX_CLIENTS
    /\ MCP_INTERFACE_AppData.ClientSockets[i] # -1
    /\ \E json \in frames :
         LET parsed == Parsed[json]
         IN  /\ parsed.status # CFE_SUCCESS
             /\ buffer' = json
             /\ request' = parsed.request
    /\ \E env \in wires :
         LET response1 == Failed(ZeroResponse, "Invalid JSON request")
             sent == MCP_INTERFACE_SendMCPResponse(
                         MCP_INTERFACE_AppData.ClientSockets[i], response1,
                         MCP_INTERFACE_AppData.DebugMode, env)
         IN  /\ response' = response1
             /\ frame' = sent.frame
             /\ sent_to' = sent.socket
             /\ trace' = sent.ops
    /\ bytes_received' = 1
    /\ errno' = "0"
    /\ pc' = "replied"
    /\ entry' = MCP_INTERFACE_AppData
    /\ UNCHANGED <<MCP_INTERFACE_AppData, now, i>>

\* recv returned 0 or failed with an error other than would-block.
Disconnect ==
    /\ pc = "poll"
    /\ i < MCP_MAX_CLIENTS
    /\ MCP_INTERFACE_AppData.ClientSockets[i] # -1
    /\ \E rc \in RecvFailures :
         /\ ClientGone(rc.bytes_received, rc.errno)
         /\ bytes_received' = rc.bytes_received
         /\ errno' = rc.errno
    /\ LET out == DisconnectClient(MCP_INTERFACE_AppData, i)
       IN  /\ MCP_INTERFACE_AppData' = out.AppData
           /\ trace' = <<Op("recv", bytes_received')>> \o out.ops
    /\ entry' = MCP_INTERFACE_AppData
    /\ i' = i + 1
    /\ UNCHANGED <<now, pc, buffer, request, response, frame, sent_to>>

\* recv had no data ready: neither branch of the loop body runs.
WouldBlock ==
    /\ pc = "poll"
    /\ i < MCP_MAX_CLIENTS
    /\ MCP_INTERFACE_AppData.ClientSockets[i] # -1
    /\ \E rc \in RecvFailures :
         /\ rc.bytes_received < 0
         /\ ~ClientGone(rc.bytes_received, rc.errno)
         /\ bytes_received' = rc.bytes_received
         /\ errno' = rc.errno
    /\ trace' = <<Op("recv", bytes_received')>>
    /\ entry' = MCP_INTERFACE_AppData
    /\ i' = i + 1
    /\ UNCHANGED <<MCP_INTERFACE_AppData, now, pc, buffer, request, response,
                   frame, sent_to>>

MCP_INTERFACE_HandleMCPRequest(wires) ==
    /\ pc = "parsed"
    /\ \E env \in EnvOf(request) :
         LET answer == AnswerMCPRequest(request, MCP_INTERFACE_AppData, now, env)
         IN  \E wire \in wires :
               LET out == SendAnswer(MCP_INTERFACE_AppData.ClientSockets[i],
                                     answer, wire)
               IN  /\ MCP_INTERFACE_AppData' = out.AppData
                   /\ response' = out.response
                   /\ frame' = out.frame
                   /\ sent_to' = out.socket
                   /\ trace' = out.ops
    /\ entry' = MCP_INTERFACE_AppData
    /\ pc' = "sent"
    /\ UNCHANGED <<now, i, buffer, bytes_received, errno, request>>

\* Mutant: a slot loop that reads the same slot again after answering.
Continue_SameSlot ==
    /\ pc \in {"sent", "replied"}
    /\ pc' = "poll"
    /\ i' = i
    /\ buffer' = NoBuffer
    /\ bytes_received' = 0
    /\ errno' = "0"
    /\ request' = ZeroRequest
    /\ response' = ZeroResponse
    /\ frame' = NoFrame
    /\ sent_to' = -1
    /\ trace' = << >>
    /\ entry' = MCP_INTERFACE_AppData
    /\ UNCHANGED <<MCP_INTERFACE_AppData, now>>

\* The slot loop goes on to the next slot: the locals of the iteration are
\* dead.
Continue ==
    /\ pc \in {"sent", "replied"}
    /\ pc' = "poll"
    /\ i' = i + 1
    /\ buffer' = NoBuffer
    /\ bytes_received' = 0
    /\ errno' = "0"
    /\ request' = ZeroRequest
    /\ response' = ZeroResponse
    /\ frame' = NoFrame
    /\ sent_to' = -1
    /\ trace' = << >>
    /\ entry' = MCP_INTERFACE_AppData
    /\ UNCHANGED <<MCP_INTERFACE_AppData, now>>

\* ProcessMCPClients returns after the last slot.
Return ==
    /\ pc = "poll"
    /\ i = MCP_MAX_CLIENTS
    /\ pc' = "idle"
    /\ i' = 0
    /\ bytes_received' = 0
    /\ errno' = "0"
    /\ trace' = << >>
    /\ entry' = MCP_INTERFACE_AppData
    /\ UNCHANGED <<MCP_INTERFACE_AppData, now, buffer, request, response,
                   frame, sent_to>>

\* The request specification: one client whose socket takes every frame,
\* every request.
Next ==
    \/ Tick
    \/ Accept(OneClient)
    \/ Skip
    \/ Receive(Frames)
    \/ ReceiveInvalid(Frames, Delivered)
    \/ Disconnect
    \/ WouldBlock
    \/ MCP_INTERFACE_HandleMCPRequest(Delivered)
    \/ Continue
    \/ Return

Spec == Init /\ [][Next]_vars

\* The connection specification: more clients than slots, a few frames,
\* sockets that may refuse a frame.
ClientsNext ==
    \/ Accept(Peers)
    \/ Skip
    \/ Receive(FewFrames)
    \/ ReceiveInvalid(FewFrames, SendEnv)
    \/ Disconnect
    \/ WouldBlock
    \/ MCP_INTERFACE_HandleMCPRequest(SendEnv)
    \/ Continue
    \/ Return

ClientsSpec == Init /\ [][ClientsNext]_vars

(***************************************************************************)
(* MCP_INTERFACE_AppMain: the three outcomes of CFE_SB_RcvMsg.  A packet   *)
(* goes to ProcessCommandPacket, a timeout to ProcessMCPClients (Accept is *)
(* its first step), any other status is reported.                          *)
(***************************************************************************)
RcvMsgSuccess ==
    /\ pc = "idle"
    /\ \E packet \in Packets :
         LET out == MCP_INTERFACE_ProcessCommandPacket(MCP_INTERFACE_AppData,
                                                       packet)
         IN  /\ out.AppData.CmdCounter <= MaxCommands
             /\ out.AppData.ErrCounter <= MaxCommands
             /\ MCP_INTERFACE_AppData' = out.AppData
             /\ trace' = <<Op("CFE_SB_RcvMsg", 1)>> \o out.ops
    /\ entry' = MCP_INTERFACE_AppData
    /\ UNCHANGED <<now, pc, i, locals>>

RcvMsgError ==
    /\ pc = "idle"
    /\ trace' = <<Op("CFE_SB_RcvMsg", -1),
                  Event(MCP_INTERFACE_COMMAND_ERR_EID)>>
    /\ entry' = MCP_INTERFACE_AppData
    /\ UNCHANGED <<MCP_INTERFACE_AppData, now, pc, i, locals>>

\* The main-loop specification: one client, a few frames, and the command
\* pipe.
LoopNext ==
    \/ Tick
    \/ RcvMsgSuccess
    \/ RcvMsgError
    \/ Accept(OneClient)
    \/ Skip
    \/ Receive(LoopFrames)
    \/ ReceiveInvalid(LoopFrames, Delivered)
    \/ Disconnect
    \/ WouldBlock
    \/ MCP_INTERFACE_HandleMCPRequest(Delivered)
    \/ Continue
    \/ Return

LoopSpec == Init /\ [][LoopNext]_vars


(***************************************************************************)
(* Vocabulary of the properties.                                           *)
(***************************************************************************)
\* HandleMCPRequest has returned for the request held in `request`.
Handled == pc = "sent"

InTrace(o) == \E n \in DOMAIN trace : trace[n] = o

\* The validator accepted the request.
Validated == InTrace(Op("MCP_INTERFACE_ValidateRequest", 1))

\* The safety gate was consulted.
GateRan == \E n \in DOMAIN trace : trace[n].op = "MCP_INTERFACE_IsSafeCommand"

\* The safety gate refused the request.
GateBlocked == InTrace(Op("MCP_INTERFACE_IsSafeCommand", 0))

\* A handler (or the catch-all) of the dispatch switch ran.
Dispatched == \E n \in DOMAIN trace : trace[n].op = "dispatch"

\* A command went out on the software bus.
BusSent == InTrace(Op("CFE_SB_SendMsg", 1))

\* A file was opened or written.
FileTouched == \E n \in DOMAIN trace : trace[n].op \in {"fopen", "fwrite"}

\* A safety event was sent before the response was handed to send().
AuditedBeforeSend ==
    \E m, n \in DOMAIN trace :
        /\ m < n
        /\ trace[m] = Event(MCP_INTERFACE_SAFETY_ERR_EID)
        /\ trace[n].op = "send"

CriticalStateUnchanged ==
    /\ MCP_INTERFACE_AppData.CriticalCommandCount = entry.CriticalCommandCount
    /\ MCP_INTERFACE_AppData.LastCriticalCommandTime = entry.LastCriticalCommandTime

\* The specification's classification of a request as critical.
HasVerb(s) ==
    \E n \in 1..Len(critical_commands) :
        strstr([k \in 1..Len(s) |-> toupper(s[k])], critical_commands[n])

CriticalBySpec(r) ==
    \/ r.is_critical
    \/ HasVerb(r.command)
    \/ HasVerb(r.params)
    \/ \E n \in 1..Len(critical_apps) :
           [k \in 1..Len(r.app_name) |-> toupper(r.app_name[k])] = critical_apps[n]
    \/ r.type = MCP_CMD_WRITE_FILE
    \/ /\ r.type = MCP_CMD_MANAGE_APP
       /\ r.params \in {Q_START, Q_STOP, <<"\"","r","e","s","t","a","r","t","\"">>}

(***************************************************************************)
(* C1: every emergency-stop request that the validator accepts passes the  *)
(* safety gate and reaches the emergency-stop handler, whatever its other  *)
(* fields; it is never answered "Command blocked by safety system".        *)
(***************************************************************************)
C1_EmergencyStopNeverBlocked ==
    (Handled /\ Validated /\ request.type = MCP_CMD_EMERGENCY_STOP) =>
        /\ InTrace(Op("MCP_INTERFACE_IsSafeCommand", 1))
        /\ InTrace(Op("dispatch", MCP_CMD_EMERGENCY_STOP))
        /\ response.error_msg # "Command blocked by safety system"

(***************************************************************************)
(* C2: a validated request that is critical by any of the specification's  *)
(* criteria and arrives unconfirmed in safety mode is refused: no command  *)
(* goes out on the software bus, the critical-command count and time stay  *)
(* as they were, and the response is not a success.                        *)
(***************************************************************************)
C2_UnconfirmedCriticalRefused ==
    (/\ Handled /\ Validated
     /\ request.type # MCP_CMD_EMERGENCY_STOP
     /\ CriticalBySpec(request)
     /\ entry.SafetyMode /\ ~request.require_confirmation) =>
        /\ response.status # 0
        /\ ~BusSent
        /\ CriticalStateUnchanged

(***************************************************************************)
(* C3: a confirmed critical request (critical by flag, verb, target or     *)
(* kind) handled less than the cooldown after an accepted critical request *)
(* is refused, and the critical-command count and time are not updated.    *)
(***************************************************************************)
C3_CriticalWithinCooldownRefused ==
    (/\ Handled /\ Validated
     /\ request.type # MCP_CMD_EMERGENCY_STOP
     /\ CriticalBySpec(request)
     /\ request.require_confirmation
     /\ entry.CriticalCommandCount > 0
     /\ now - entry.LastCriticalCommandTime < CRITICAL_COOLDOWN) =>
        /\ response.status # 0
        /\ ~BusSent
        /\ CriticalStateUnchanged

(***************************************************************************)
(* C4: a read-file or write-file request whose params contains a protected *)
(* path is answered with a failure, confirmed or not; no handler runs and  *)
(* no file is opened; when it passed the validator, it is the safety gate  *)
(* that refuses it.                                                        *)
(***************************************************************************)
C4_ProtectedPathBlocked ==
    (/\ Handled
     /\ request.type \in {MCP_CMD_READ_FILE, MCP_CMD_WRITE_FILE}
     /\ ProtectedPath(request.params)) =>
        /\ response.status # 0
        /\ frame.status # 0
        /\ ~Dispatched
        /\ ~FileTouched
        /\ Validated =>
              /\ GateBlocked
              /\ response.error_msg = "Command blocked by safety system"

C4_Witness ==
    /\ Handled
    /\ request.type = MCP_CMD_READ_FILE
    /\ ProtectedPath(request.params)
    /\ request.require_confirmation
    /\ GateBlocked
    /\ response.error_msg = "Command blocked by safety system"

(***************************************************************************)
(* C5: no write-file request produces a success: its response and the      *)
(* frame sent for it have a failure status, SuccessCounter is not          *)
(* incremented and no file is opened or written.                           *)
(***************************************************************************)
C5_WriteFileNeverSucceeds ==
    (Handled /\ request.type = MCP_CMD_WRITE_FILE) =>
        /\ response.status # 0
        /\ frame.status # 0
        /\ MCP_INTERFACE_AppData.SuccessCounter = entry.SuccessCounter
        /\ ~FileTouched

C5_Witness ==
    /\ Handled
    /\ request.type = MCP_CMD_WRITE_FILE
    /\ request.require_confirmation
    /\ InTrace(Op("dispatch", MCP_CMD_WRITE_FILE))
    /\ response.error_msg = "File write operation not implemented for safety reasons"

(***************************************************************************)
(* C6: every validated write-file request answered with a failure has a    *)
(* safety event (MCP_INTERFACE_SAFETY_ERR_EID) sent before its response.   *)
(***************************************************************************)
C6_RefusedWriteAudited ==
    (/\ Handled /\ Validated
     /\ request.type = MCP_CMD_WRITE_FILE
     /\ response.status # 0) =>
        AuditedBeforeSend

(***************************************************************************)
(* C7: after an emergency-stop request that passed the gate, SafetyMode is *)
(* TRUE and the response is a success.                                     *)
(***************************************************************************)
C7_EmergencyStopSetsSafeMode ==
    (/\ Handled
     /\ request.type = MCP_CMD_EMERGENCY_STOP
     /\ InTrace(Op("dispatch", MCP_CMD_EMERGENCY_STOP))) =>
        /\ MCP_INTERFACE_AppData.SafetyMode = TRUE
        /\ response.status = 0

C7_Witness ==
    /\ Handled
    /\ request.type = MCP_CMD_EMERGENCY_STOP
    /\ InTrace(Op("dispatch", MCP_CMD_EMERGENCY_STOP))
    /\ InTrace(Event(MCP_INTERFACE_SAFETY_ERR_EID))
    /\ response.status = 0
    /\ MCP_INTERFACE_AppData.SafetyMode

(***************************************************************************)
(* C8: a request with id 0 is rejected by the validator whatever its other *)
(* fields: the gate and the handlers do not run, the response is a         *)
(* failure, ErrorCounter grows by exactly 1 and RequestCounter,            *)
(* SuccessCounter, CriticalCommandCount, LastCriticalCommandTime and       *)
(* SafetyMode are unchanged.                                               *)
(***************************************************************************)
C8_IdZeroRejected ==
    (Handled /\ request.id = 0) =>
        /\ InTrace(Op("MCP_INTERFACE_ValidateRequest", 0))
        /\ ~GateRan
        /\ ~Dispatched
        /\ response.status # 0
        /\ frame.status # 0
        /\ MCP_INTERFACE_AppData.ErrorCounter = entry.ErrorCounter + 1
        /\ MCP_INTERFACE_AppData.RequestCounter = entry.RequestCounter
        /\ MCP_INTERFACE_AppData.SuccessCounter = entry.SuccessCounter
        /\ CriticalStateUnchanged
        /\ MCP_INTERFACE_AppData.SafetyMode = entry.SafetyMode

C8_Witness ==
    /\ Handled
    /\ request.id = 0
    /\ request.type = MCP_CMD_EMERGENCY_STOP
    /\ response.error_msg = "Invalid request parameters"
    /\ entry.ErrorCounter = 1
    /\ MCP_INTERFACE_AppData.ErrorCounter = 2

(***************************************************************************)
(* C9: for every request that reaches the dispatch switch, RequestCounter  *)
(* grows by exactly 1 and exactly one of SuccessCounter and ErrorCounter   *)
(* grows by exactly 1: SuccessCounter when the response status is 0,       *)
(* ErrorCounter otherwise.                                                 *)
(***************************************************************************)
C9_CountedOncePerOutcome ==
    (Handled /\ Dispatched) =>
        /\ MCP_INTERFACE_AppData.RequestCounter = entry.RequestCounter + 1
        /\ response.status = 0 =>
              /\ MCP_INTERFACE_AppData.SuccessCounter = entry.SuccessCounter + 1
              /\ MCP_INTERFACE_AppData.ErrorCounter = entry.ErrorCounter
        /\ response.status # 0 =>
              /\ MCP_INTERFACE_AppData.SuccessCounter = entry.SuccessCounter
              /\ MCP_INTERFACE_AppData.ErrorCounter = entry.ErrorCounter + 1

\* The handler returned CFE_SUCCESS with a failure status: the bus refused
\* the command.
C9_Witness ==
    /\ Handled
    /\ InTrace(Op("CFE_SB_SendMsg", 0))
    /\ response.status # 0
    /\ MCP_INTERFACE_AppData.RequestCounter = entry.RequestCounter + 1
    /\ MCP_INTERFACE_AppData.ErrorCounter = entry.ErrorCounter + 1

(***************************************************************************)
(* C10: every response has exactly one of result and error_msg populated   *)
(* (result when status is 0, error_msg otherwise), and the frame sent      *)
(* carries exactly one of the members "result" and "error".                *)
(***************************************************************************)
C10_ResultXorError ==
    (pc \in {"sent", "replied"}) =>
        /\ response.status = 0 => (response.result # "" /\ response.error_msg = "")
        /\ response.status # 0 => (response.error_msg # "" /\ response.result = "")
        /\ ("result" \in frame.members) # ("error" \in frame.members)

\* A directory could not be opened: the handler reports it in error_msg.
C10_Witness ==
    /\ Handled
    /\ InTrace(Op("opendir", 0))
    /\ response.status = -1
    /\ response.error_msg = "Failed to open directory: %s"
    /\ response.result = ""
    /\ frame.members = {"id", "status", "timestamp", "error"}

(***************************************************************************)
(* Vocabulary of the connection properties.                                *)
(***************************************************************************)
\* A frame was received on slot i and its handling is complete.
Serviced == pc \in {"sent", "replied"}

\* The calls of send() made since the frame was received.
Sends == {n \in DOMAIN trace : trace[n].op = "send"}

\* ProcessMCPClients has just accepted a peer and not yet read a slot.
JustAccepted ==
    /\ pc = "poll"
    /\ i = 0
    /\ trace # << >>
    /\ trace[1].op = "accept"
    /\ trace[1].arg >= 0

\* recv on the occupied slot i - 1 has just returned without a frame.
JustRead ==
    /\ pc = "poll"
    /\ i > 0
    /\ trace # << >>
    /\ trace[1].op = "recv"

\* The slots other than k hold what they held before the step.
OthersUnchanged(k) ==
    \A j \in Slots \ {k} :
        MCP_INTERFACE_AppData.ClientSockets[j] = entry.ClientSockets[j]

(***************************************************************************)
(* C11: once a frame received on an occupied slot has been handled, send() *)
(* was called exactly once, on the connection of that slot, and the slot   *)
(* loop has not moved on; when the frame decoded, the response and the     *)
(* frame sent carry the id of the request, whether the validator or the    *)
(* gate refused it, a handler answered it or the encoder fell back.        *)
(***************************************************************************)
C11_OneResponsePerFrame ==
    Serviced =>
        /\ Cardinality(Sends) = 1
        /\ i \in Slots
        /\ entry.ClientSockets[i] # -1
        /\ sent_to = entry.ClientSockets[i]
        /\ pc = "sent" =>
              /\ response.id = request.id
              /\ frame.id = request.id

\* The second connection is answered with the fallback frame.
C11_Witness ==
    /\ pc = "sent"
    /\ i = 1
    /\ sent_to = MCP_INTERFACE_AppData.ClientSockets[1]
    /\ sent_to # MCP_INTERFACE_AppData.ClientSockets[0]
    /\ InTrace(Op("MCP_INTERFACE_FormatJSONResponse", 0))
    /\ request.id = 2
    /\ frame.id = 2

(***************************************************************************)
(* C12: a peer accepted while all MCP_MAX_CLIENTS slots are occupied is    *)
(* closed at once, and the slots and ActiveClients stay as they were; a    *)
(* peer accepted while a slot is free gets the free slot of lowest index,  *)
(* ActiveClients grows by 1 and the other slots stay as they were.         *)
(***************************************************************************)
C12_Admission ==
    JustAccepted =>
        LET new_client == trace[1].arg
            free == {k \in Slots : entry.ClientSockets[k] = -1}
        IN  IF free = {}
            THEN /\ InTrace(Op("close", new_client))
                 /\ MCP_INTERFACE_AppData.ClientSockets = entry.ClientSockets
                 /\ MCP_INTERFACE_AppData.ActiveClients = entry.ActiveClients
            ELSE LET k == CHOOSE k \in free : \A j \in free : k <= j
                 IN  /\ MCP_INTERFACE_AppData.ClientSockets[k] = new_client
                     /\ OthersUnchanged(k)
                     /\ MCP_INTERFACE_AppData.ActiveClients
                          = entry.ActiveClients + 1
                     /\ ~InTrace(Op("close", new_client))

\* A fifth peer is turned away.
C12_Witness ==
    /\ JustAccepted
    /\ \A k \in Slots : entry.ClientSockets[k] # -1
    /\ entry.ActiveClients = MCP_MAX_CLIENTS
    /\ InTrace(Op("close", trace[1].arg))
    /\ MCP_INTERFACE_AppData.ActiveClients = MCP_MAX_CLIENTS

(***************************************************************************)
(* C13: when recv on an occupied slot returns 0, or fails with an error    *)
(* other than EAGAIN and EWOULDBLOCK, the connection is closed, the slot   *)
(* becomes -1 and ActiveClients shrinks by 1 before the loop goes on, and  *)
(* the other slots stay as they were; when recv fails with EAGAIN or       *)
(* EWOULDBLOCK the slot stays occupied.                                    *)
(***************************************************************************)
C13_DisconnectOnRecv ==
    JustRead =>
        /\ entry.ClientSockets[i - 1] # -1
        /\ IF \/ bytes_received = 0
              \/ /\ bytes_received < 0
                 /\ errno \notin {"EAGAIN", "EWOULDBLOCK"}
           THEN /\ MCP_INTERFACE_AppData.ClientSockets[i - 1] = -1
                /\ InTrace(Op("close", entry.ClientSockets[i - 1]))
                /\ MCP_INTERFACE_AppData.ActiveClients = entry.ActiveClients - 1
                /\ OthersUnchanged(i - 1)
           ELSE /\ MCP_INTERFACE_AppData.ClientSockets = entry.ClientSockets
                /\ MCP_INTERFACE_AppData.ActiveClients = entry.ActiveClients

\* The second of three connections is reset by its peer.
C13_Witness ==
    /\ JustRead
    /\ i = 2
    /\ bytes_received < 0
    /\ errno = "ECONNRESET"
    /\ entry.ActiveClients = 3
    /\ MCP_INTERFACE_AppData.ActiveClients = 2
    /\ MCP_INTERFACE_AppData.ClientSockets[0] # -1
    /\ MCP_INTERFACE_AppData.ClientSockets[1] = -1
    /\ MCP_INTERFACE_AppData.ClientSockets[2] # -1

(***************************************************************************)
(* C14: when send() fails for a response, the connection it was sent on is *)
(* destroyed: its slot becomes -1 and ActiveClients shrinks by 1.          *)
(***************************************************************************)
C14_SendFailureDestroys ==
    (Serviced /\ InTrace(Op("send", 0))) =>
        /\ MCP_INTERFACE_AppData.ClientSockets[i] = -1
        /\ MCP_INTERFACE_AppData.ActiveClients = entry.ActiveClients - 1

(***************************************************************************)
(* Vocabulary of the codec properties.                                     *)
(***************************************************************************)
\* A frame was received on slot i: `buffer` holds it.
Received == pc \in {"parsed", "sent", "replied"}

\* A string member of the frame is longer than the field of the request.
Oversized(json) ==
    \/ Len(json.app_name.str) > MCP_MAX_APP_NAME_LEN - 1
    \/ Len(json.command.str) > MCP_MAX_CMD_NAME_LEN - 1
    \/ Len(json.params.str) > MCP_MAX_JSON_SIZE - 1

\* The frame is not JSON, or its id or its type is missing or not a number.
Undecodable(json) ==
    \/ ~json.wellformed
    \/ json.id.kind # "number"
    \/ json.type.kind # "number"

(***************************************************************************)
(* C15: a frame whose app_name, command or params is longer than the field *)
(* (19, 31, 4095 characters) is answered with a failure before the gate    *)
(* or a handler sees it; it is never gated or dispatched as its prefix.    *)
(***************************************************************************)
C15_OversizedRejected ==
    (Handled /\ Oversized(buffer)) =>
        /\ response.status # 0
        /\ ~GateRan
        /\ ~Dispatched

(***************************************************************************)
(* C16: a received frame that is not JSON, or whose id or type is missing  *)
(* or not a number, is answered by exactly one send of the failure         *)
(* response "Invalid JSON request" on its connection; the validator, the   *)
(* gate and the handlers do not run, CriticalCommandCount,                 *)
(* LastCriticalCommandTime and SafetyMode stay as they were, and the       *)
(* connection stays in its slot.                                           *)
(***************************************************************************)
C16_UndecodableAnswered ==
    (Received /\ Undecodable(buffer)) =>
        /\ pc = "replied"
        /\ Cardinality(Sends) = 1
        /\ sent_to = entry.ClientSockets[i]
        /\ response.status = -1
        /\ response.error_msg = "Invalid JSON request"
        /\ frame.status = -1
        /\ InTrace(Op("MCP_INTERFACE_FormatJSONResponse", 1)) =>
               frame.error = "Invalid JSON request"
        /\ \A n \in DOMAIN trace :
               trace[n].op \notin {"MCP_INTERFACE_ValidateRequest",
                                   "MCP_INTERFACE_IsSafeCommand", "dispatch",
                                   "close"}
        /\ CriticalStateUnchanged
        /\ MCP_INTERFACE_AppData.SafetyMode = entry.SafetyMode
        /\ MCP_INTERFACE_AppData.ClientSockets = entry.ClientSockets
        /\ MCP_INTERFACE_AppData.ActiveClients = entry.ActiveClients
        /\ MCP_INTERFACE_AppData.ClientSockets[i] # -1

\* A frame without a type gets the fixed response and the connection stays.
C16_Witness ==
    /\ pc = "replied"
    /\ buffer.wellformed
    /\ buffer.id.kind = "number"
    /\ buffer.type.kind = "absent"
    /\ frame.error = "Invalid JSON request"
    /\ InTrace(Op("send", 1))
    /\ MCP_INTERFACE_AppData.ClientSockets[i] = sent_to

\* The frame SendMCPResponse falls back to for a response.
IsFallback(f, r) ==
    /\ f.id = r.id
    /\ f.status = -1
    /\ f.error = "Failed to format response"
    /\ f.result = ""
    /\ f.len = FALLBACK_TEXT_LEN + Digits(r.id) + Digits(r.timestamp)
    /\ f.len < MCP_MAX_JSON_SIZE

(***************************************************************************)
(* C17: no frame of MCP_MAX_JSON_SIZE bytes or more is sent; whenever      *)
(* FormatJSONResponse fails for a response, be it for want of memory or    *)
(* because the text would reach MCP_MAX_JSON_SIZE, SendMCPResponse sends   *)
(* the fallback frame with the id of the response, status -1 and "Failed   *)
(* to format response"; the fallback fits the buffer whatever the id and   *)
(* the timestamp.                                                          *)
(***************************************************************************)
C17_FrameBounded ==
    Serviced =>
        /\ frame.len < MCP_MAX_JSON_SIZE
        /\ InTrace(Op("MCP_INTERFACE_FormatJSONResponse", 0)) =>
               IsFallback(frame, response)
        /\ InTrace(Op("MCP_INTERFACE_FormatJSONResponse", 1)) =>
               /\ frame.id = response.id
               /\ frame.status = response.status
        /\ FALLBACK_TEXT_LEN + 10 + 10 < MCP_MAX_JSON_SIZE

\* The text of a successful response would fill the buffer: the fallback.
C17_Witness ==
    /\ Handled
    /\ response.status = 0
    /\ InTrace(Op("MCP_INTERFACE_FormatJSONResponse", 0))
    /\ frame.status = -1
    /\ frame.id = response.id
    /\ frame.error = "Failed to format response"
    /\ frame.len > FALLBACK_TEXT_LEN
    /\ InTrace(Op("send", 1))

(***************************************************************************)
(* C18: a request the gate refuses is answered "Command blocked by safety  *)
(* system", not "Invalid request parameters", and a safety event is sent   *)
(* by LogSafetyEvent after the gate's refusal and before the response is   *)
(* handed to send(); a request the validator refuses is answered "Invalid  *)
(* request parameters" and no safety event is sent for it.                 *)
(***************************************************************************)
C18_BlockAudited ==
    /\ (Handled /\ GateBlocked) =>
           /\ response.status = -1
           /\ response.error_msg = "Command blocked by safety system"
           /\ response.error_msg # "Invalid request parameters"
           /\ \E a, b, c \in DOMAIN trace :
                  /\ a < b /\ b < c
                  /\ trace[a] = Op("MCP_INTERFACE_IsSafeCommand", 0)
                  /\ trace[b] = Event(MCP_INTERFACE_SAFETY_ERR_EID)
                  /\ trace[c].op = "send"
    /\ (Handled /\ InTrace(Op("MCP_INTERFACE_ValidateRequest", 0))) =>
           /\ response.error_msg = "Invalid request parameters"
           /\ ~InTrace(Event(MCP_INTERFACE_SAFETY_ERR_EID))
           /\ ~GateRan

\* An unconfirmed command with a critical verb is refused and audited.
C18_Witness ==
    /\ Handled
    /\ request.type = MCP_CMD_SEND_COMMAND
    /\ ~request.require_confirmation
    /\ GateBlocked
    /\ AuditedBeforeSend
    /\ frame.error = "Command blocked by safety system"

(***************************************************************************)
(* C19: a validated request that is not critical (by its flag, a verb in   *)
(* its command or params, a critical target, being a write-file or a       *)
(* manage-app start, stop or restart) and is not a file request on a       *)
(* protected path is accepted by the gate in either mode, confirmed or     *)
(* not, and reaches the dispatch switch.                                   *)
(***************************************************************************)
C19_BenignAccepted ==
    (/\ Handled /\ Validated
     /\ ~CriticalBySpec(request)
     /\ ~(/\ request.type \in {MCP_CMD_READ_FILE, MCP_CMD_WRITE_FILE}
          /\ ProtectedPath(request.params))) =>
        /\ \A mode, confirmed \in BOOLEAN :
               MCP_INTERFACE_IsSafeCommand(
                   [request EXCEPT !.require_confirmation = confirmed],
                   mode).safe
        /\ InTrace(Op("MCP_INTERFACE_IsSafeCommand", 1))
        /\ InTrace(Op("dispatch", request.type))

\* An unconfirmed, unflagged read of an ordinary file in safety mode.
C19_Witness ==
    /\ Handled /\ Validated
    /\ request.type = MCP_CMD_READ_FILE
    /\ ~request.require_confirmation
    /\ ~request.is_critical
    /\ ~CriticalBySpec(request)
    /\ ~ProtectedPath(request.params)
    /\ entry.SafetyMode
    /\ InTrace(Op("dispatch", MCP_CMD_READ_FILE))
    /\ response.status = 0

(***************************************************************************)
(* Vocabulary of the idempotence property: the request held in `request`   *)
(* is answered, and then the same request under another id is answered at  *)
(* time t2, with the bus and the file system behaving alike.               *)
(***************************************************************************)
FirstOf(env) ==
    AnswerMCPRequest(request, MCP_INTERFACE_AppData, now, env)

SecondOf(first, t2, env) ==
    AnswerMCPRequest([request EXCEPT !.id = IF request.id = 1 THEN 2 ELSE 1],
                     first.AppData, t2, env)

\* The second request is handled in the same second, or as soon as the
\* cooldown after the first allows.
SecondTime(first) ==
    IF now - first.AppData.LastCriticalCommandTime >= CRITICAL_COOLDOWN
    THEN now
    ELSE first.AppData.LastCriticalCommandTime + CRITICAL_COOLDOWN

\* Neither handling falls within the cooldown after a critical request.
OutsideCooldown(first, t2) ==
    /\ now - MCP_INTERFACE_AppData.LastCriticalCommandTime >= CRITICAL_COOLDOWN
    /\ t2 - first.AppData.LastCriticalCommandTime >= CRITICAL_COOLDOWN


\* The responses agree but for the counters and the time in their results.
SameButCounters(r1, r2) ==
    /\ r1.status = r2.status
    /\ r1.error_msg = r2.error_msg
    /\ r1.result = r2.result
    /\ r1.result_args.state = r2.result_args.state

AgainOf(first, t2, env) == AnswerMCPRequest(request, first.AppData, t2, env)

RateLimited(r) == r.error_msg = "Critical command rate limit exceeded"

\* A confirmed send command that is critical and that the command mapping
\* knows, about to be handled.
ConfirmedCriticalSend ==
    /\ pc = "parsed"
    /\ MCP_INTERFACE_ValidateRequest(request) = CFE_SUCCESS
    /\ request.type = MCP_CMD_SEND_COMMAND
    /\ request.is_critical
    /\ request.require_confirmation
    /\ request.app_name = S_CFE_ES
    /\ request.command = S_NOOP

\* No critical request was accepted in the cooldown before now: none was
\* ever counted, or the last one lies a cooldown or more in the past.
NoneAcceptedLately ==
    \/ MCP_INTERFACE_AppData.CriticalCommandCount = 0
    \/ now - MCP_INTERFACE_AppData.LastCriticalCommandTime >= CRITICAL_COOLDOWN

(***************************************************************************)
(* C21: from a state in which no critical request was accepted during the  *)
(* last cooldown (the initial state included), the same critical request   *)
(* sent twice less than the cooldown apart is accepted the first time and  *)
(* refused with the rate-limit error the second time; over the two,        *)
(* CriticalCommandCount grows by exactly one and, the bus taking the       *)
(* command, ErrorCounter grows by exactly one.                             *)
(***************************************************************************)
C21_SecondRateLimited ==
    (ConfirmedCriticalSend /\ NoneAcceptedLately) =>
        \A env \in EnvOf(request) :
            LET first == FirstOf(env)
                second == AgainOf(first, now, env)
            IN  /\ ~RateLimited(first.response)
                /\ RateLimited(second.response)
                /\ second.AppData.CriticalCommandCount
                     = MCP_INTERFACE_AppData.CriticalCommandCount + 1
                /\ env.sb = "ok" =>
                     /\ first.response.status = 0
                     /\ second.AppData.ErrorCounter
                          = MCP_INTERFACE_AppData.ErrorCounter + 1

(***************************************************************************)
(* Vocabulary of the scenario: the send command of NOOP to CFE_ES, not     *)
(* flagged critical, was handled in safety mode.                           *)
(***************************************************************************)
NoopToES ==
    /\ Handled /\ Validated
    /\ entry.SafetyMode
    /\ request.type = MCP_CMD_SEND_COMMAND
    /\ request.app_name = S_CFE_ES
    /\ request.command = S_NOOP
    /\ ~request.is_critical

\* The command was handed to the software bus and, the bus taking it, the
\* response says so.
NoopSent ==
    /\ ~GateBlocked
    /\ \E n \in DOMAIN trace : trace[n].op = "CFE_SB_CreateMsg"
    /\ BusSent =>
         /\ response.id = request.id
         /\ response.status = 0
         /\ response.result = "{\"command_sent\": true, ...}"

(***************************************************************************)
(* C22, as stated: in safety mode, the send command of NOOP to CFE_ES that *)
(* is neither confirmed nor flagged critical passes the gate and is sent   *)
(* on the software bus; when the bus takes it, the response carries the    *)
(* request's id, status 0 and a result saying the command was sent.        *)
(***************************************************************************)
C22_UnconfirmedNoopAccepted ==
    (NoopToES /\ ~request.require_confirmation) => NoopSent

(***************************************************************************)
(* C22, amended: CFE_ES is a critical target, so in safety mode the NOOP   *)
(* is sent only when the request is confirmed; unconfirmed, the gate       *)
(* blocks it, nothing goes out on the bus and the response is the failure  *)
(* "Command blocked by safety system" under the request's id.              *)
(***************************************************************************)
C22_ConfirmedNoopAccepted ==
    /\ (NoopToES /\ request.require_confirmation) => NoopSent
    /\ (NoopToES /\ ~request.require_confirmation) =>
            /\ GateBlocked
            /\ ~Dispatched
            /\ response.id = request.id
            /\ response.status = -1
            /\ response.error_msg = "Command blocked by safety system"

\* The confirmed NOOP went out on the bus and was answered with success.
C22_Witness ==
    /\ NoopToES
    /\ request.require_confirmation
    /\ BusSent
    /\ response.status = 0

(***************************************************************************)
(* Vocabulary of the wire type: the nine kinds in the order of the         *)
(* dispatch switch, the k-th of them answering the request.                *)
(***************************************************************************)
KindAt(k, req, resp, AppData, time, env) ==
    CASE k = 1 -> MCP_INTERFACE_HandleSendCommand(req, resp, AppData, time, env)
      [] k = 2 -> MCP_INTERFACE_HandleGetTelemetry(req, resp, AppData, time, env)
      [] k = 3 -> MCP_INTERFACE_HandleGetSystemStatus(req, resp, AppData, time, env)
      [] k = 4 -> MCP_INTERFACE_HandleManageApp(req, resp, AppData, time, env)
      [] k = 5 -> MCP_INTERFACE_HandleGetFileList(req, resp, AppData, time, env)
      [] k = 6 -> MCP_INTERFACE_HandleReadFile(req, resp, AppData, time, env)
      [] k = 7 -> MCP_INTERFACE_HandleWriteFile(req, resp, AppData, time, env)
      [] k = 8 -> MCP_INTERFACE_HandleGetEventLog(req, resp, AppData, time, env)
      [] k = 9 -> MCP_INTERFACE_HandleEmergencyStop(req, resp, AppData, time, env)

\* The number the client wrote as the type of the frame in hand.
WireType == buffer.type.num

EmptyQuotedPath == request.params = <<"\"", "\"">>

\* The response in hand is the one the k-th kind gives to the request.
AnsweredByKind(k) ==
    \E env \in EnvOf(request) :
        response = KindAt(k, request,
                          [ZeroResponse EXCEPT !.id = request.id,
                                               !.timestamp = now],
                          entry, now, env).response

(***************************************************************************)
(* C23, as stated: a request of wire type 6 whose params is an empty       *)
(* quoted path, once past the gate, is handled as a read-file request and  *)
(* refused with "File path is required", no file being opened.             *)
(***************************************************************************)
C23_Type6PathRequired ==
    (Handled /\ Validated /\ ~GateBlocked /\ WireType = 6
          /\ EmptyQuotedPath) =>
        /\ InTrace(Op("dispatch", MCP_CMD_READ_FILE))
        /\ response.status = -1
        /\ response.error_msg = "File path is required"
        /\ ~FileTouched

(***************************************************************************)
(* C23, amended: wire type 5 is read file and wire type 6 is write file.   *)
(* A request of wire type 5 whose params is an empty quoted path and that  *)
(* the gate lets pass reaches the read-file handler and is refused with    *)
(* "File path is required", no file being opened; the same params under    *)
(* wire type 6 reach the write-file handler, which refuses as it refuses   *)
(* every write; and every request that passes the gate with wire type w in *)
(* 0..8 is answered by the (w+1)-th kind of the dispatch order.            *)
(***************************************************************************)
C23_Type5PathRequired ==
    /\ (Handled /\ Validated /\ ~GateBlocked /\ WireType = 5
          /\ EmptyQuotedPath) =>
            /\ InTrace(Op("dispatch", MCP_CMD_READ_FILE))
            /\ response.status = -1
            /\ response.error_msg = "File path is required"
            /\ ~FileTouched
    /\ (Handled /\ Validated /\ ~GateBlocked /\ WireType = 6
          /\ EmptyQuotedPath) =>
            /\ InTrace(Op("dispatch", MCP_CMD_WRITE_FILE))
            /\ response.status = -1
            /\ response.error_msg \in
                 {"File write requires confirmation in safety mode",
                  "File write operation not implemented for safety reasons"}
            /\ ~FileTouched
    /\ (Handled /\ Dispatched /\ WireType \in 0..8) =>
            AnsweredByKind(WireType + 1)

\* An empty quoted path was refused by the read-file handler.
C23_Witness ==
    /\ Handled /\ Validated
    /\ WireType = 5
    /\ EmptyQuotedPath
    /\ InTrace(Op("dispatch", MCP_CMD_READ_FILE))
    /\ response.error_msg = "File path is required"

\* The number the client wrote as the id of the frame in hand.
WireId == buffer.id.num

(***************************************************************************)
(* C26: a request frame whose id is a number that is not greater than zero *)
(* (zero or negative) is refused by the decoder or by the validator: the   *)
(* gate and the handlers never see it and the response is a failure.       *)
(***************************************************************************)
C26_NonPositiveIdRejected ==
    (Handled /\ cJSON_IsNumber(buffer.id) /\ WireId <= 0) =>
        /\ ~Validated
        /\ ~GateRan
        /\ ~Dispatched
        /\ response.status = -1

(***************************************************************************)
(* Vocabulary of the validator: the conditions the specification gives for *)
(* a request to be valid.                                                  *)
(***************************************************************************)
ValidBySpec(r) ==
    /\ r.id # 0
    /\ r.type \in 0..8
    /\ (r.type \in {MCP_CMD_SEND_COMMAND, MCP_CMD_GET_TELEMETRY,
                    MCP_CMD_MANAGE_APP}) =>
           /\ Len(r.app_name) > 0
           /\ Len(r.app_name) < MCP_MAX_APP_NAME_LEN
    /\ (r.type = MCP_CMD_SEND_COMMAND) =>
           /\ Len(r.command) > 0
           /\ Len(r.command) < MCP_MAX_CMD_NAME_LEN
    /\ Len(r.params) < MCP_MAX_JSON_SIZE

(***************************************************************************)
(* C27: the validator accepts a request exactly when its id is not 0, its  *)
(* type is one of 0..8, its app_name is non-empty and shorter than 20 if   *)
(* the kind is send command, get telemetry or manage component, its        *)
(* command is non-empty and shorter than 32 if the kind is send command,   *)
(* and its params is shorter than 4096; and validating changes nothing: a  *)
(* refused request leaves the application data as it was but for the       *)
(* ErrorCounter that HandleMCPRequest increments.                          *)
(***************************************************************************)
C27_ValidatorTable ==
    Handled =>
        /\ Validated <=> ValidBySpec(request)
        /\ (MCP_INTERFACE_ValidateRequest(request) = CFE_SUCCESS) <=> Validated
        /\ ~Validated =>
               MCP_INTERFACE_AppData
                 = [entry EXCEPT !.ErrorCounter = entry.ErrorCounter + 1]

\* A send command with a target and no command was refused.
C27_Witness ==
    /\ Handled
    /\ ~Validated
    /\ request.id # 0
    /\ request.type = MCP_CMD_SEND_COMMAND
    /\ Len(request.app_name) > 0
    /\ Len(request.command) = 0

(***************************************************************************)
(* C28: a request whose type is a number outside 0..8, negative numbers    *)
(* included, is answered with a failure and no handler runs; every request *)
(* the validator accepts has a type in 0..8, so the catch-all branch of    *)
(* the dispatch switch is never taken.                                     *)
(***************************************************************************)
C28_TypeOutOfRangeRefused ==
    /\ (Handled /\ WireType \notin 0..8) =>
            /\ response.status = -1
            /\ response.error_msg = "Invalid request parameters"
            /\ ~GateRan
            /\ ~Dispatched
    /\ (Handled /\ Validated) => request.type \in 0..8
    /\ Handled => response.error_msg # "Unknown command type: %d"

\* A request of type -1 was refused by the validator.
C28_Witness ==
    /\ Handled
    /\ WireType = -1
    /\ request.id # 0
    /\ ~Validated
    /\ response.status = -1

\* The main loop with the progress the scheduler gives it: the loop is
\* never suspended for ever, so a step that stays possible is taken.  What
\* the command pipe delivers is left to the software bus.
LoopFairSpec == LoopSpec /\ WF_vars(LoopNext)

(***************************************************************************)
(* Vocabulary of the main loop.                                            *)
(***************************************************************************)
\* A client holds a slot.
Connected == \E k \in Slots : MCP_INTERFACE_AppData.ClientSockets[k] # -1

\* The iteration took a packet from the command pipe.
TookPacket == InTrace(Op("CFE_SB_RcvMsg", 1))

\* The iteration called accept.
TriedAccept == \E n \in DOMAIN trace : trace[n].op = "accept"

\* A read was attempted on a client's slot.
TriedRead ==
    \/ pc \in {"parsed", "sent", "replied"}
    \/ \E n \in DOMAIN trace : trace[n].op = "recv"

(***************************************************************************)
(* C24: every iteration of the main loop attempts an accept and a read on  *)
(* every occupied slot after its wait, whatever the wait returned: the     *)
(* iteration that took a packet from the command pipe called accept too.   *)
(***************************************************************************)
C24_EveryIterationPolls == TookPacket => TriedAccept

(***************************************************************************)
(* C24, its consequence: a connected client is read again and again, also  *)
(* when the command pipe delivers a packet in every wait.                  *)
(***************************************************************************)
C24_ClientEventuallyRead == [](Connected => <>TriedRead)

(***************************************************************************)
(* Vocabulary of the tick: a step that calls accept, a step that reads the *)
(* slot i, and the part of the application data a request may change.      *)
(***************************************************************************)
AcceptStep == \E n \in DOMAIN trace' : trace'[n].op = "accept"

ReadStep ==
    /\ pc = "poll"
    /\ \/ pc' \in {"parsed", "replied"}
       \/ \E n \in DOMAIN trace' : trace'[n].op = "recv"

SafetyState(AppData) ==
    <<AppData.SafetyMode, AppData.CriticalCommandCount,
      AppData.LastCriticalCommandTime, AppData.RequestCounter,
      AppData.SuccessCounter, AppData.ErrorCounter>>

TickOrder ==
    \* accept opens the tick, before any slot is read
    /\ AcceptStep => (pc = "idle" /\ pc' = "poll" /\ i' = 0)
    \* the slots are passed in strictly ascending order, each once
    /\ (pc = "poll" /\ pc' = "poll") => i' = i + 1
    /\ (pc = "poll" /\ pc' = "idle") => i = MCP_MAX_CLIENTS
    \* a read takes one frame from the occupied slot i
    /\ ReadStep =>
          /\ i \in Slots
          /\ MCP_INTERFACE_AppData.ClientSockets[i] # -1
          /\ pc' \in {"parsed", "replied"} => i' = i
    \* the request read from slot i is handled and answered at once ...
    /\ pc = "parsed" =>
          /\ pc' = "sent"
          /\ i' = i
          /\ request' = request
          /\ \E n \in DOMAIN trace' : trace'[n].op = "send"
    \* ... and only then the loop moves to slot i + 1
    /\ pc \in {"sent", "replied"} =>
          /\ pc' = "poll"
          /\ i' = i + 1
          /\ MCP_INTERFACE_AppData' = MCP_INTERFACE_AppData
    \* nothing but the handling of the request in hand changes the safety
    \* state
    /\ SafetyState(MCP_INTERFACE_AppData') # SafetyState(MCP_INTERFACE_AppData)
          => pc = "parsed"

(***************************************************************************)
(* C25: within one call of ProcessMCPClients accept runs before any read,  *)
(* the occupied slots are read in strictly ascending order, one frame per  *)
(* slot, and the request read from a slot is validated, gated, handled,    *)
(* counted and answered before the next slot is read; so the changes one   *)
(* request makes to the safety state and the counters are complete before  *)
(* the next request is looked at.                                          *)
(***************************************************************************)
C25_OneFramePerSlotInOrder == [][TickOrder]_vars

\* The second slot's request was answered in a tick that had already read
\* the first slot, whose client is still connected.
C25_Witness ==
    /\ pc = "sent"
    /\ i = 1
    /\ MCP_INTERFACE_AppData.ClientSockets[0] # -1
    /\ MCP_INTERFACE_AppData.ClientSockets[1] # -1

(***************************************************************************)
(* Vocabulary of the counters: the step handles a flagged critical send    *)
(* command that the rate limit lets pass; the step is the ground command   *)
(* that resets the counters.                                               *)
(***************************************************************************)
PassesRateLimit ==
    /\ pc = "parsed"
    /\ request.is_critical
    /\ \E n \in DOMAIN trace' :
           trace'[n] = Op("dispatch", MCP_CMD_SEND_COMMAND)
    /\ response'.error_msg # "Critical command rate limit exceeded"

ResetStep ==
    /\ pc = "idle"
    /\ \E n \in DOMAIN trace' :
           trace'[n] = Op("MCP_INTERFACE_ProcessGroundCommand",
                          MCP_INTERFACE_RESET_COUNTERS_CC)
    /\ \A n \in DOMAIN trace' :
           trace'[n] # Event(MCP_INTERFACE_COMMAND_ERR_EID)

CriticalFrame ==
    LET before == MCP_INTERFACE_AppData
        after == MCP_INTERFACE_AppData'
    IN  /\ after.CriticalCommandCount >= before.CriticalCommandCount
        /\ PassesRateLimit =>
              /\ after.CriticalCommandCount = before.CriticalCommandCount + 1
              /\ after.LastCriticalCommandTime = now
        /\ ~PassesRateLimit =>
              /\ after.CriticalCommandCount = before.CriticalCommandCount
              /\ after.LastCriticalCommandTime = before.LastCriticalCommandTime

(***************************************************************************)
(* C29: CriticalCommandCount never decreases.  It grows by exactly one,    *)
(* and LastCriticalCommandTime becomes the current time, in the step that  *)
(* handles a flagged critical send command which the rate limit lets pass; *)
(* every other step (a frame that does not decode, a request the validator *)
(* or the gate refuses, a rate-limited request, a request that is not      *)
(* flagged critical, the other handlers, the ground commands with the      *)
(* reset of the counters among them, housekeeping) leaves both as they     *)
(* were.                                                                   *)
(***************************************************************************)
C29_CriticalCountFrame == [][CriticalFrame]_vars

\* The counters were reset after a critical command had been counted: the
\* count of critical commands is still 1.
C29_Witness ==
    /\ pc = "idle"
    /\ InTrace(Op("MCP_INTERFACE_ProcessGroundCommand",
                  MCP_INTERFACE_RESET_COUNTERS_CC))
    /\ entry.RequestCounter > 0
    /\ MCP_INTERFACE_AppData.RequestCounter = 0
    /\ MCP_INTERFACE_AppData.CriticalCommandCount = 1
    /\ MCP_INTERFACE_AppData.LastCriticalCommandTime = CRITICAL_COOLDOWN

CounterStep(before, after) == after = before \/ after = before + 1

CountersFrame ==
    LET before == MCP_INTERFACE_AppData
        after == MCP_INTERFACE_AppData'
    IN  /\ ~ResetStep =>
              /\ CounterStep(before.RequestCounter, after.RequestCounter)
              /\ CounterStep(before.SuccessCounter, after.SuccessCounter)
              /\ CounterStep(before.ErrorCounter, after.ErrorCounter)
        /\ ResetStep =>
              /\ after.RequestCounter = 0
              /\ after.SuccessCounter = 0
              /\ after.ErrorCounter = 0

(***************************************************************************)
(* C30: between resets RequestCounter, SuccessCounter and ErrorCounter     *)
(* never go down: every step other than the ground command that resets the *)
(* counters leaves each of them as it was or adds one to it, and the reset *)
(* sets all three to 0.                                                    *)
(***************************************************************************)
C30_CountersMonotonic == [][CountersFrame]_vars

\* The reset brought counters that had counted a refused request to 0.
C30_Witness ==
    /\ pc = "idle"
    /\ InTrace(Op("MCP_INTERFACE_ProcessGroundCommand",
                  MCP_INTERFACE_RESET_COUNTERS_CC))
    /\ entry.ErrorCounter > 0
    /\ MCP_INTERFACE_AppData.RequestCounter = 0
    /\ MCP_INTERFACE_AppData.SuccessCounter = 0
    /\ MCP_INTERFACE_AppData.ErrorCounter = 0

(***************************************************************************)
(* Vocabulary of the collaborator failures: the software bus could not     *)
(* create the command message, or refused to send it.                      *)
(***************************************************************************)
BusFailed ==
    \/ InTrace(Op("CFE_SB_CreateMsg", 0))
    \/ InTrace(Op("CFE_SB_SendMsg", 0))

(***************************************************************************)
(* C31: when the software bus fails for a send command that passed the     *)
(* gate (the message cannot be created, or the send returns an error), the *)
(* handler returns with a failure response (status -1, error message set,  *)
(* result empty), the request is counted once in RequestCounter and once   *)
(* in ErrorCounter and not in SuccessCounter, a failure frame is sent once *)
(* to the client of the slot, and the slot loop goes on to the next slot.  *)
(***************************************************************************)
C31_BusFailureReported ==
    (Handled /\ BusFailed) =>
        /\ request.type = MCP_CMD_SEND_COMMAND
        /\ InTrace(Op("MCP_INTERFACE_IsSafeCommand", 1))
        /\ response.status = -1
        /\ response.error_msg \in {"Failed to create command message",
                                   "Failed to send command, status = 0x%08X"}
        /\ response.result = ""
        /\ MCP_INTERFACE_AppData.RequestCounter = entry.RequestCounter + 1
        /\ MCP_INTERFACE_AppData.ErrorCounter = entry.ErrorCounter + 1
        /\ MCP_INTERFACE_AppData.SuccessCounter = entry.SuccessCounter
        /\ Cardinality(Sends) = 1
        /\ sent_to = MCP_INTERFACE_AppData.ClientSockets[i]
        /\ frame.status = -1
        /\ "error" \in frame.members
        /\ i \in Slots
        /\ ENABLED Continue

\* The bus refused a command to FM: the failure is counted and the frame
\* sent carries the error.
C31_Witness ==
    /\ Handled
    /\ InTrace(Op("CFE_SB_SendMsg", 0))
    /\ request.app_name = S_FM
    /\ response.status = -1
    /\ response.error_msg = "Failed to send command, status = 0x%08X"
    /\ frame.error = "Failed to send command, status = 0x%08X"
    /\ MCP_INTERFACE_AppData.ErrorCounter = entry.ErrorCounter + 1

(***************************************************************************)
(* Vocabulary of the connection table: the occupied slots.                 *)
(***************************************************************************)
Occupied == {k \in Slots : MCP_INTERFACE_AppData.ClientSockets[k] # -1}

(***************************************************************************)
(* C32: in every state after the initialisation of the sockets,            *)
(* ActiveClients is the number of entries of ClientSockets that are not    *)
(* -1, and it lies between 0 and MCP_MAX_CLIENTS; it never goes below 0.   *)
(***************************************************************************)
C32_ActiveClientsCountsSlots ==
    /\ MCP_INTERFACE_AppData.ActiveClients = Cardinality(Occupied)
    /\ MCP_INTERFACE_AppData.ActiveClients >= 0
    /\ MCP_INTERFACE_AppData.ActiveClients <= MCP_MAX_CLIENTS

\* A client of the full table has gone: three are left.
C32_Witness ==
    /\ JustRead
    /\ InTrace(Event(MCP_INTERFACE_CLIENT_DISCONNECT_INF_EID))
    /\ entry.ActiveClients = MCP_MAX_CLIENTS
    /\ MCP_INTERFACE_AppData.ActiveClients = MCP_MAX_CLIENTS - 1
    /\ Cardinality(Occupied) = MCP_MAX_CLIENTS - 1

(***************************************************************************)
(* Vocabulary of component management: the request handled is a validated  *)
(* manage-component request whose action is start or stop; the answer it   *)
(* would get with the safe mode off.                                       *)
(***************************************************************************)
StartOrStop ==
    /\ Handled
    /\ Validated
    /\ request.type = MCP_CMD_MANAGE_APP
    /\ request.params \in {Q_START, Q_STOP}

Unconfirmed == entry.SafetyMode /\ ~request.require_confirmation

CountedAsSuccess ==
    /\ MCP_INTERFACE_AppData.RequestCounter = entry.RequestCounter + 1
    /\ MCP_INTERFACE_AppData.SuccessCounter = entry.SuccessCounter + 1
    /\ MCP_INTERFACE_AppData.ErrorCounter = entry.ErrorCounter

PermissiveAnswers ==
    {AnswerMCPRequest(request, [entry EXCEPT !.SafetyMode = FALSE], now, env) :
        env \in EnvOf(request)}

(***************************************************************************)
(* C33 as stated: a validated manage-component request whose action is     *)
(* start or stop, unconfirmed in safe mode, is answered with a failure and *)
(* counted once in RequestCounter and once in ErrorCounter; confirmed, or  *)
(* with the safe mode off, it is answered with a success.                  *)
(***************************************************************************)
C33_UnconfirmedCountedAsRequest ==
    StartOrStop =>
        /\ Unconfirmed =>
              /\ response.status = -1
              /\ MCP_INTERFACE_AppData.RequestCounter = entry.RequestCounter + 1
              /\ MCP_INTERFACE_AppData.ErrorCounter = entry.ErrorCounter + 1
              /\ MCP_INTERFACE_AppData.SuccessCounter = entry.SuccessCounter
        /\ ~Unconfirmed => (response.status = 0 /\ CountedAsSuccess)
        /\ \A answer \in PermissiveAnswers : answer.response.status = 0

(***************************************************************************)
(* C33, amended: a validated manage-component request whose action is      *)
(* start or stop, unconfirmed in safe mode, is answered with a failure and *)
(* counted once in ErrorCounter, and once in RequestCounter when the gate  *)
(* let it through to the handler and not at all when the gate refused it   *)
(* (its target is a critical application or its command names a critical   *)
(* verb); confirmed, or with the safe mode off, it is answered with a      *)
(* success.                                                                *)
(***************************************************************************)
C33_UnconfirmedStartStopRefused ==
    StartOrStop =>
        /\ Unconfirmed =>
              /\ response.status = -1
              /\ MCP_INTERFACE_AppData.RequestCounter =
                     entry.RequestCounter + (IF GateBlocked THEN 0 ELSE 1)
              /\ MCP_INTERFACE_AppData.ErrorCounter = entry.ErrorCounter + 1
              /\ MCP_INTERFACE_AppData.SuccessCounter = entry.SuccessCounter
              /\ GateBlocked <=>
                    (request.app_name = S_CFE_ES \/ HasVerb(request.command))
        /\ ~Unconfirmed => (response.status = 0 /\ CountedAsSuccess)
        /\ \A answer \in PermissiveAnswers : answer.response.status = 0

\* An unconfirmed stop of FM went through the gate and the handler refused
\* it.
C33_Witness ==
    /\ StartOrStop
    /\ Unconfirmed
    /\ request.app_name = S_FM
    /\ request.params = Q_STOP
    /\ ~GateBlocked
    /\ Dispatched
    /\ response.error_msg = "App stop requires confirmation in safety mode"
    /\ MCP_INTERFACE_AppData.RequestCounter = entry.RequestCounter + 1

(***************************************************************************)
(* C34: SafetyMode is TRUE in every reachable state.  Initialisation and   *)
(* the emergency-stop handler set it TRUE and no request, ground command   *)
(* or housekeeping request sets it FALSE, so every step begins and ends in *)
(* the safe mode and the confirmation checks that read the mode never see  *)
(* it off.                                                                 *)
(***************************************************************************)
C34_AlwaysSafeMode ==
    /\ MCP_INTERFACE_AppData.SafetyMode = TRUE
    /\ entry.SafetyMode = TRUE

\* An emergency stop was handled after a ground command had switched the
\* debug mode on: the safe mode is on as before.
C34_Witness ==
    /\ Handled
    /\ InTrace(Op("dispatch", MCP_CMD_EMERGENCY_STOP))
    /\ response.status = 0
    /\ MCP_INTERFACE_AppData.DebugMode
    /\ MCP_INTERFACE_AppData.CmdCounter = 1
    /\ MCP_INTERFACE_AppData.SafetyMode

(***************************************************************************)
(* C35 as stated: after any sequence of requests and ground commands since *)
(* the last reset, RequestCounter = SuccessCounter + ErrorCounter: the     *)
(* totals that the status and telemetry queries report add up.             *)
(***************************************************************************)
C35_CountersAddUp ==
    MCP_INTERFACE_AppData.RequestCounter =
        MCP_INTERFACE_AppData.SuccessCounter + MCP_INTERFACE_AppData.ErrorCounter

(***************************************************************************)
(* C35, amended: RequestCounter never exceeds SuccessCounter +              *)
(* ErrorCounter, and the difference is the number of requests refused      *)
(* before dispatch since the last reset: a step changes it only by         *)
(* handling a request that the validator or the gate refuses, which adds   *)
(* one to it, or by resetting the counters, which makes it 0.              *)
(***************************************************************************)
C35_RequestsWithinOutcomes ==
    LET Excess(AppData) ==
            AppData.SuccessCounter + AppData.ErrorCounter - AppData.RequestCounter
    IN  /\ Excess(MCP_INTERFACE_AppData) >= 0
        /\ Excess(MCP_INTERFACE_AppData) # Excess(entry) =>
              \/ /\ Handled
                 /\ ~Dispatched
                 /\ Excess(MCP_INTERFACE_AppData) = Excess(entry) + 1
              \/ /\ InTrace(Op("MCP_INTERFACE_ProcessGroundCommand",
                               MCP_INTERFACE_RESET_COUNTERS_CC))
                 /\ Excess(MCP_INTERFACE_AppData) = 0

\* A request was refused before dispatch after another had been answered:
\* one request is counted, two outcomes are.
C35_Witness ==
    /\ Handled
    /\ ~Dispatched
    /\ entry.RequestCounter = 1
    /\ entry.SuccessCounter + entry.ErrorCounter = 1
    /\ MCP_INTERFACE_AppData.RequestCounter = 1
    /\ MCP_INTERFACE_AppData.SuccessCounter
         + MCP_INTERFACE_AppData.ErrorCounter = 2

(***************************************************************************)
(* C36: the outcome counted for a request is the outcome sent to the       *)
(* client.  Once a frame received has been answered, SuccessCounter has    *)
(* grown only if the frame sent reports status 0, and whenever the frame   *)
(* sent reports a failure (the frame for a request that did not decode and *)
(* the fallback frame "Failed to format response" included) ErrorCounter   *)
(* has grown by exactly one.                                               *)
(***************************************************************************)
C36_CountedAsSent ==
    Serviced =>
        /\ MCP_INTERFACE_AppData.SuccessCounter # entry.SuccessCounter =>
              frame.status = 0
        /\ frame.status # 0 =>
              MCP_INTERFACE_AppData.ErrorCounter = entry.ErrorCounter + 1

(***************************************************************************)
(* C37: a send command is counted as a critical command only when it is    *)
(* sent.  Once a send command has been handled, CriticalCommandCount has   *)
(* grown, LastCriticalCommandTime has changed or the audit event of a      *)
(* critical command has been emitted only if the command went out on the   *)
(* software bus and the response is a success; a critical request that     *)
(* fails after the rate-limit check leaves the rate-limit window as it     *)
(* was.                                                                    *)
(***************************************************************************)
C37_CountedOnlyWhenSent ==
    (Handled /\ InTrace(Op("dispatch", MCP_CMD_SEND_COMMAND))) =>
        /\ (\/ ~CriticalStateUnchanged
            \/ InTrace(Event(MCP_INTERFACE_COMMAND_SUCCESS_INF_EID))) =>
              (BusSent /\ response.status = 0)
        /\ response.status # 0 => CriticalStateUnchanged

====
